---- MODULE Spec2Model ----
(***************************************************************************)
(* Unit inference of pyomo/core/base/units.py.                             *)
(*                                                                         *)
(* _UnitExtractionVisitor is a post-order walker: exitNode is called for   *)
(* a node once the results of all its children are known, with `data` the  *)
(* list of the children's results, each a (pyomo unit, pint unit) pair.    *)
(* The model keeps the results that still wait for their parent on a       *)
(* stack: a leaf pushes its result, a node with n children replaces the    *)
(* n topmost results by its own, a rule that raises aborts the walk.       *)
(*                                                                         *)
(* A pint unit is a map from unit names to exponents.  Exponents are kept  *)
(* doubled (2 stands for the exponent 1, 1 for 0.5), so that sqrt and      *)
(* x**0.5 stay in the integers.                                            *)
(*                                                                         *)
(* The module also holds the persistent solver interface of                *)
(* pyomo/solvers/plugins/solvers/persistent_solver.py and the launcher of  *)
(* pyomo/pysp/solvers/schuripopt.py, each with specifications of its own.  *)
(***************************************************************************)
EXTENDS Integers, Sequences, FiniteSets, TLC

VARIABLES
    stack,   \* results of the visited nodes whose parent is not yet exited
    status,  \* "walking" | "exited" | "returned" | "raised"
    last,    \* the exitNode call in flight: its node, its data, its outcome
    api,     \* the public function that started the walk, and its arguments
    result,  \* what that function gave its caller
    defs,    \* the pint registry of the container: unit name -> definition
    cache,   \* the attributes set on the container: unit name -> _PyomoUnit
    made,    \* the number of _PyomoUnit objects the container has built
    op,      \* the last operation on the container or on a unit, its outcome
    added_blocks,  \* PersistentSolver: the blocks handed to _add_block
    method_call,   \* PersistentSolver: the last call of a public method
    solver_model,  \* PersistentSolver: the objects of the solver's own model
    symbol_map,    \* PersistentSolver._symbol_map: the components with a symbol
    labeler,       \* PersistentSolver._labeler: the components with a label
    pyomo_con_to_solver_con_map,  \* _pyomo_con_to_solver_con_map
    vars_referenced_by_con,       \* _vars_referenced_by_con
    vars_referenced_by_obj,       \* _vars_referenced_by_obj
    referenced_variables,         \* _referenced_variables
    pyomo_var_to_solver_var_map,  \* _pyomo_var_to_solver_var_map
    options,       \* PersistentSolver.options: the object and what it holds
    launch         \* SchurIpoptSolver: the last launch of the solver

walker == <<stack, status, last>>

registry == <<defs, cache, made, op>>

unit_state == <<stack, status, last, api, result, defs, cache, made, op>>

\* what the solver interface remembers of the model it was given
remembered ==
    <<solver_model, symbol_map, labeler, pyomo_con_to_solver_con_map,
      vars_referenced_by_con, vars_referenced_by_obj, referenced_variables,
      pyomo_var_to_solver_var_map>>

persistent == <<added_blocks, method_call, remembered, options>>

solvers == <<persistent, launch>>

vars == <<unit_state, solvers>>

----------------------------------------------------------------------------
(* Bounds of the model *)

\* Largest number of children of an n-ary node (and depth of the stack).
MaxArgs == 3

\* Children handed to a rule have whole exponents whose absolute values sum
\* to at most MaxDeg; the unit a rule returns is not bounded.
MaxDeg == 1

\* Largest number of coefficients / variables of a LinearExpression.
MaxTerms == 2

\* Largest number of _PyomoUnit objects a container builds.
MaxInstances == 3

----------------------------------------------------------------------------
(* pint units *)

\* meter_hi and meter_lo are units a user has defined next to the meter:
\* meter_hi = 1.0000000000007 meter, meter_lo = 0.9999999999993 meter
NearMeterNames == {"meter_hi", "meter_lo"}

Names == {"meter", "kilogram", "kilometer", "radian"} \cup NearMeterNames

ZeroVec == [n \in Names |-> 0]

UnitVec(name) == [n \in Names |-> IF n = name THEN 2 ELSE 0]

Abs(x) == IF x < 0 THEN 0 - x ELSE x

\* pint's dimensionality of a unit: exponents of the base dimensions.
\* radian is defined as dimensionless ("radian = []").
Dimensionality(u) ==
    [length |-> u["meter"] + u["kilometer"] + u["meter_hi"] + u["meter_lo"],
     mass |-> u["kilogram"]]

\* log10 of the factor to base units (doubled with the exponents), to the
\* nearest whole power: kilometer = 1000 meter, every other name has a
\* factor of 1 or next to 1.
LogFactor(u) == 3 * u["kilometer"]

\* what the factor to base units has above that power of ten, as a
\* multiple of 0.5e-13 (doubled with the exponents): 7e-13 for meter_hi,
\* -7e-13 for meter_lo
Deviation(u) == 7 * (u["meter_hi"] - u["meter_lo"])

\* units_equivalence_tolerance=1e-12, as a multiple of 0.5e-13
units_equivalence_tolerance == 20

\* abs(lhsq - rhsq).magnitude for lhsq = 1.0*lhs, rhsq = 1.0*rhs of one
\* dimensionality, as a multiple of 0.5e-13: rhsq is converted to the units
\* of lhs, which gives |1 - factor(rhs)/factor(lhs)|; it is far above the
\* tolerance when the powers of ten differ
QuantityDifference(lhs, rhs) ==
    IF LogFactor(lhs) # LogFactor(rhs)
    THEN 2 * units_equivalence_tolerance
    ELSE Abs(Deviation(lhs) - Deviation(rhs))

MulVec(a, b) == [n \in Names |-> a[n] + b[n]]

RecipVec(a) == [n \in Names |-> 0 - a[n]]

\* a ** v, v given doubled
PowVec(a, v2) == [n \in Names |-> (a[n] * v2) \div 2]

Degree(u) == Abs(u["meter"]) + Abs(u["kilogram"]) + Abs(u["kilometer"])
             + Abs(u["radian"]) + Abs(u["meter_hi"]) + Abs(u["meter_lo"])

WholeVec(u) == \A n \in Names : u[n] % 2 = 0

----------------------------------------------------------------------------
(* objects: a pint Unit, or a Pyomo unit expression (a _PyomoUnit or an    *)
(* expression of them), abstracted to the unit it denotes                  *)

PintUnit(u) == [cls |-> "pint", u |-> u]

PyomoUnit(u) == [cls |-> "pyomo", u |-> u]

\* a pint unit of the registry of another container; pint builds the
\* class of its units per registry
OtherPintUnit(u) == [cls |-> "other_pint", u |-> u]

NullObj == [cls |-> "none", u |-> ZeroVec]

UnitsTuple(py, pt) == [pyomo |-> py, pint |-> pt]

NullTuple == UnitsTuple(NullObj, NullObj)

\* self._pint_ureg.dimensionless, self._pint_ureg.radians
ureg_dimensionless == PintUnit(ZeroVec)

ureg_radians == PintUnit(UnitVec("radian"))

\* self._pyomo_units_container.dimensionless, .radians
container_dimensionless == PyomoUnit(ZeroVec)

container_radians == PyomoUnit(UnitVec("radian"))

\* pyomo_unit * pyomo_unit_i, pint_unit * pint_unit_i
ObjMul(a, b) == [cls |-> a.cls, u |-> MulVec(a.u, b.u)]

\* 1.0/pyomo_unit, 1.0/pint_unit
ObjRecip(a) == [cls |-> a.cls, u |-> RecipVec(a.u)]

\* pyomo_unit_base**exponent_value, pint_unit_base**exponent_value
ObjPow(a, v2) == [cls |-> a.cls, u |-> PowVec(a.u, v2)]

----------------------------------------------------------------------------
(* _pint_units_equivalent: "T", "F", or "X" when it raises.                *)
(*                                                                         *)
(* On two pint units: equal unit containers, or equal dimensionality and   *)
(* |1.0*lhs - 1.0*rhs| below the tolerance 1e-12.  The difference is taken *)
(* in the units of lhs: QuantityDifference.                                *)
(*                                                                         *)
(* On an object that is not a pint unit (a Pyomo unit in the pint slot of  *)
(* a pair), lhs == rhs is NumericValue.__eq__, which builds a relational   *)
(* expression instead of comparing, and 1.0*lhs is a Pyomo expression      *)
(* without .dimensionality: the call raises a Python error that is no      *)
(* UnitsError, unless the expression built by == is truthy.  Which of the  *)
(* two happens is decided by host code; `host` is that outcome.            *)
(*                                                                         *)
(* On two pint units of different registries, lhs == rhs is pint's        *)
(* Unit.__eq__, which checks the registries of its operands and raises     *)
(* ValueError ("Cannot operate with ... of different registries").         *)
(***************************************************************************)
HostOutcomes == {"T", "X"}

PintClasses == {"pint", "other_pint"}

pint_units_equivalent(lhs, rhs, host) ==
    IF lhs.cls \in PintClasses /\ rhs.cls = lhs.cls
    THEN IF lhs.u = rhs.u
         THEN "T"
         ELSE IF /\ Dimensionality(lhs.u) = Dimensionality(rhs.u)
                 /\ QuantityDifference(lhs.u, rhs.u)
                       < units_equivalence_tolerance
              THEN "T"
              ELSE "F"
    ELSE IF lhs.cls \in PintClasses /\ rhs.cls \in PintClasses
         THEN "X"
         ELSE host

----------------------------------------------------------------------------
(* outcomes of a rule *)

\* A LinearExpression keeps its operands in attributes, not in args:
\* constant, linear_coefs, linear_vars.  Each operand is given by the result
\* of its own walk (_get_units_tuple); `truthy` is bool(node.constant).
NullLinear == [truthy |-> FALSE, constant |-> NullTuple, coefs |-> <<>>,
               vars |-> <<>>]

\* What exitNode reads of a node: its type, for a unary function its name
\* (getname()), for a unit leaf the unit's name, for a pow node what
\* args[1] is ("native": a plain number, "constant": is_constant(),
\* "fixed": is_fixed() only, "free": neither) and value(args[1]) doubled,
\* for a LinearExpression its operands.
MkNode(type, name, exponent, value, linear) ==
    [type |-> type, name |-> name, exponent |-> exponent, value |-> value,
     linear |-> linear, pint_registry |-> "uc"]

\* a unit of another container: its _get_pint_registry() is not the
\* registry of the container the visitor was built with
OtherUnitLeaf(name) ==
    [type |-> "_PyomoUnit", name |-> name, exponent |-> "none", value |-> 0,
     linear |-> NullLinear, pint_registry |-> "other"]

NullNode == MkNode("none", "", "none", 0, NullLinear)

Ok(t) == [type |-> "ok", val |-> t, exp1 |-> NullObj, exp2 |-> NullObj,
          node |-> NullNode]

\* raise InconsistentUnitsError(exp1, exp2, '... expression: {}'.format(node))
Inconsistent(e1, e2, node) ==
    [type |-> "InconsistentUnitsError", val |-> NullTuple, exp1 |-> e1,
     exp2 |-> e2, node |-> node]

\* raise UnitsError(msg); the message renders `shown` and, at most places,
\* the node
UnitsErr(shown, node) ==
    [type |-> "UnitsError", val |-> NullTuple, exp1 |-> shown,
     exp2 |-> NullObj, node |-> node]

\* any other Python error: TypeError, AssertionError, AttributeError,
\* UnboundLocalError, IndexError
PyErr(type, node) ==
    [type |-> type, val |-> NullTuple, exp1 |-> NullObj, exp2 |-> NullObj,
     node |-> node]

\* the error of a _pint_units_equivalent call that raised: AttributeError
\* on an object that is no pint unit, ValueError across registries; the
\* model keeps one name for the two, neither being a UnitsError
HostErr == PyErr("AttributeError", NullNode)

----------------------------------------------------------------------------
(* the rules *)

MinOf(S) == CHOOSE x \in S : \A y \in S : x <= y

\* the check shared by the rules that need all units to agree with the
\* first one: lines 476-484 and lines 531-539
AllEquivalentToFirst(node, units, host) ==
    LET bad == {i \in 2..Len(units) :
                  pint_units_equivalent(units[1].pint, units[i].pint, host)
                    # "T"}
    IN  IF bad = {}
        THEN Ok(UnitsTuple(units[1].pyomo, units[1].pint))
        ELSE LET i == MinOf(bad)
             IN  IF pint_units_equivalent(units[1].pint, units[i].pint, host)
                      = "X"
                 THEN HostErr
                 ELSE Inconsistent(units[1].pint, units[i].pint, node)

get_unit_for_equivalent_children(node, data, host) ==
    IF Len(data) = 0
    THEN PyErr("AssertionError", NullNode)
    ELSE AllEquivalentToFirst(node, data, host)

RECURSIVE ProductLoop(_, _, _, _)
\* the loop of _get_unit_for_product from index i on; acc = NullTuple
\* stands for pyomo_unit is None
ProductLoop(data, i, acc, host) ==
    IF i > Len(data)
    THEN IF acc = NullTuple
         THEN Ok(UnitsTuple(container_dimensionless, ureg_dimensionless))
         ELSE Ok(acc)
    ELSE LET e == pint_units_equivalent(data[i].pint, ureg_dimensionless,
                                        host)
         IN  CASE e = "X" -> HostErr
               [] e = "T" -> ProductLoop(data, i + 1, acc, host)
               [] OTHER ->
                    ProductLoop(data, i + 1,
                        IF acc = NullTuple
                        THEN UnitsTuple(data[i].pyomo, data[i].pint)
                        ELSE UnitsTuple(ObjMul(acc.pyomo, data[i].pyomo),
                                        ObjMul(acc.pint, data[i].pint)),
                        host)

get_unit_for_product(node, data, host) ==
    IF Len(data) <= 1
    THEN PyErr("AssertionError", NullNode)
    ELSE ProductLoop(data, 1, NullTuple, host)

get_unit_for_reciprocal(node, data, host) ==
    IF Len(data) # 1
    THEN PyErr("AssertionError", NullNode)
    ELSE LET e == pint_units_equivalent(data[1].pint, ureg_dimensionless,
                                        host)
         IN  CASE e = "X" -> HostErr
               [] e = "T" -> Ok(UnitsTuple(data[1].pyomo, data[1].pint))
               [] OTHER -> Ok(UnitsTuple(ObjRecip(data[1].pyomo),
                                         ObjRecip(data[1].pint)))

get_unit_for_pow(node, data, host) ==
    IF Len(data) # 2
    THEN PyErr("AssertionError", NullNode)
    ELSE LET pyomo_unit_base == data[1].pyomo
             pint_unit_base == data[1].pint
             pyomo_unit_exponent == data[2].pyomo
             pint_unit_exponent == data[2].pint
             ee == pint_units_equivalent(pint_unit_exponent,
                                         ureg_dimensionless, host)
             eb == pint_units_equivalent(pint_unit_base,
                                         ureg_dimensionless, host)
         IN  CASE ee = "X" -> HostErr
               [] ee = "F" -> UnitsErr(NullObj, node)
               [] eb = "X" -> HostErr
               [] eb = "T" ->
                    Ok(UnitsTuple(pyomo_unit_base, pyomo_unit_exponent))
               [] node.exponent \notin {"native", "fixed", "constant"} ->
                    UnitsErr(pyomo_unit_base, NullNode)
               [] OTHER ->
                    Ok(UnitsTuple(ObjPow(pyomo_unit_base, node.value),
                                  ObjPow(pint_unit_base, node.value)))

get_unit_for_single_child(node, data, host) ==
    IF Len(data) # 1
    THEN PyErr("AssertionError", NullNode)
    ELSE Ok(UnitsTuple(data[1].pyomo, data[1].pint))

\* The loop raises at the first child that is not dimensionless; after the
\* loop the method returns the loop variables, which are the last child's
\* pair and are unbound when there is no child.
get_dimensionless_with_dimensionless_children(node, data, host) ==
    LET bad == {i \in 1..Len(data) :
                  pint_units_equivalent(data[i].pint, ureg_dimensionless,
                                        host) # "T"}
    IN  IF bad # {}
        THEN LET i == MinOf(bad)
             IN  IF pint_units_equivalent(data[i].pint, ureg_dimensionless,
                                          host) = "X"
                 THEN HostErr
                 ELSE UnitsErr(data[i].pyomo, node)
        ELSE IF Len(data) = 0
             THEN PyErr("UnboundLocalError", NullNode)
             ELSE Ok(UnitsTuple(data[Len(data)].pyomo,
                                data[Len(data)].pint))

get_unit_for_expr_if(node, data, host) ==
    IF Len(data) # 3
    THEN PyErr("AssertionError", NullNode)
    ELSE LET e == pint_units_equivalent(data[2].pint, data[3].pint, host)
         IN  CASE e = "X" -> HostErr
               [] e = "F" -> Inconsistent(data[2].pyomo, data[3].pyomo, node)
               [] OTHER -> Ok(UnitsTuple(data[2].pyomo, data[2].pint))

get_dimensionless_with_radians_child(node, data, host) ==
    IF Len(data) # 1
    THEN PyErr("AssertionError", NullNode)
    ELSE LET e == pint_units_equivalent(data[1].pint, ureg_radians, host)
         IN  CASE e = "X" -> HostErr
               [] e = "F" -> UnitsErr(data[1].pyomo, node)
               [] OTHER -> Ok(UnitsTuple(container_dimensionless,
                                         ureg_dimensionless))

get_radians_with_dimensionless_child(node, data, host) ==
    IF Len(data) # 1
    THEN PyErr("AssertionError", NullNode)
    ELSE LET e == pint_units_equivalent(data[1].pint, ureg_dimensionless,
                                        host)
         IN  CASE e = "X" -> HostErr
               [] e = "F" -> UnitsErr(data[1].pyomo, node)
               [] OTHER -> Ok(UnitsTuple(container_radians, ureg_radians))

get_unit_sqrt(node, data, host) ==
    IF Len(data) # 1
    THEN PyErr("AssertionError", NullNode)
    ELSE LET e == pint_units_equivalent(data[1].pint, ureg_dimensionless,
                                        host)
         IN  CASE e = "X" -> HostErr
               [] e = "T" -> Ok(UnitsTuple(container_dimensionless,
                                           ureg_dimensionless))
               [] OTHER -> Ok(UnitsTuple(ObjPow(data[1].pyomo, 1),
                                         ObjPow(data[1].pint, 1)))

RECURSIVE LinearTerms(_, _, _, _)
\* the loop over linear_vars from index k on, term_unit_list = terms
LinearTerms(node, k, terms, host) ==
    IF k > Len(node.linear.vars)
    THEN IF Len(terms) = 0
         THEN PyErr("IndexError", NullNode)
         ELSE AllEquivalentToFirst(node, terms, host)
    ELSE LET v_units == node.linear.vars[k]
             c_units == node.linear.coefs[k]
             ec == pint_units_equivalent(c_units.pint, ureg_dimensionless,
                                         host)
             ev == pint_units_equivalent(v_units.pint, ureg_dimensionless,
                                         host)
         IN  CASE ec = "X" -> HostErr
               [] ec = "T" ->
                    LinearTerms(node, k + 1,
                        Append(terms, UnitsTuple(v_units.pyomo, v_units.pint)),
                        host)
               [] ev = "X" -> HostErr
               [] ev = "T" ->
                    LinearTerms(node, k + 1,
                        Append(terms, UnitsTuple(c_units.pyomo, c_units.pint)),
                        host)
               [] OTHER ->
                    LinearTerms(node, k + 1,
                        Append(terms,
                            UnitsTuple(ObjMul(c_units.pyomo, v_units.pyomo),
                                       ObjMul(c_units.pint, v_units.pint))),
                        host)

get_unit_for_linear_expression(node, data, host) ==
    IF Len(data) # 0
    THEN PyErr("AssertionError", NullNode)
    ELSE IF Len(node.linear.coefs) # Len(node.linear.vars)
         THEN PyErr("AssertionError", NullNode)
         ELSE LinearTerms(node, 1,
                  IF node.linear.truthy
                  THEN <<node.linear.constant>>
                  ELSE <<>>,
                  host)

----------------------------------------------------------------------------
(* the dispatch tables *)

unary_function_method_map ==
    [log   |-> "_get_dimensionless_with_dimensionless_children",
     log10 |-> "_get_dimensionless_with_dimensionless_children",
     sin   |-> "_get_dimensionless_with_radians_child",
     cos   |-> "_get_dimensionless_with_radians_child",
     tan   |-> "_get_dimensionless_with_radians_child",
     sinh  |-> "_get_dimensionless_with_radians_child",
     cosh  |-> "_get_dimensionless_with_radians_child",
     tanh  |-> "_get_dimensionless_with_radians_child",
     asin  |-> "_get_radians_with_dimensionless_child",
     acos  |-> "_get_radians_with_dimensionless_child",
     atan  |-> "_get_radians_with_dimensionless_child",
     exp   |-> "_get_dimensionless_with_dimensionless_children",
     sqrt  |-> "_get_unit_sqrt",
     asinh |-> "_get_radians_with_dimensionless_child",
     acosh |-> "_get_radians_with_dimensionless_child",
     atanh |-> "_get_radians_with_dimensionless_child",
     ceil  |-> "_get_unit_for_single_child",
     floor |-> "_get_unit_for_single_child"]

node_type_method_map ==
    [EqualityExpression      |-> "_get_unit_for_equivalent_children",
     InequalityExpression    |-> "_get_unit_for_equivalent_children",
     RangedExpression        |-> "_get_unit_for_equivalent_children",
     SumExpression           |-> "_get_unit_for_equivalent_children",
     NPV_SumExpression       |-> "_get_unit_for_equivalent_children",
     ProductExpression       |-> "_get_unit_for_product",
     MonomialTermExpression  |-> "_get_unit_for_product",
     NPV_ProductExpression   |-> "_get_unit_for_product",
     ReciprocalExpression    |-> "_get_unit_for_reciprocal",
     NPV_ReciprocalExpression |-> "_get_unit_for_reciprocal",
     PowExpression           |-> "_get_unit_for_pow",
     NPV_PowExpression       |-> "_get_unit_for_pow",
     NegationExpression      |-> "_get_unit_for_single_child",
     NPV_NegationExpression  |-> "_get_unit_for_single_child",
     AbsExpression           |-> "_get_unit_for_single_child",
     NPV_AbsExpression       |-> "_get_unit_for_single_child",
     UnaryFunctionExpression |-> "_get_unit_for_unary_function",
     NPV_UnaryFunctionExpression |-> "_get_unit_for_unary_function",
     Expr_ifExpression       |-> "_get_unit_for_expr_if",
     IndexTemplate           |-> "_get_dimensionless_no_children",
     GetItemExpression       |-> "_get_dimensionless_with_dimensionless_children",
     ExternalFunctionExpression |-> "_get_dimensionless_with_dimensionless_children",
     NPV_ExternalFunctionExpression |-> "_get_dimensionless_with_dimensionless_children",
     LinearExpression        |-> "_get_unit_for_linear_expression"]

\* The types of the leaves: type(expr) in nonpyomo_leaf_types ("native"),
\* or not expr.is_expression_type().
LeafTypes == {"native", "Var", "Param", "IndexTemplate", "_PyomoUnit"}

is_leaf(node) == node.type \in LeafTypes

get_dimensionless_no_children(node, data, host) ==
    IF Len(data) # 0 \/ ~is_leaf(node)
    THEN PyErr("AssertionError", NullNode)
    ELSE Ok(UnitsTuple(container_dimensionless, ureg_dimensionless))

\* node_func(self, node, list_of_unit_tuples) for a method of the tables
\* other than _get_unit_for_unary_function
CallRule(method, node, data, host) ==
    CASE method = "_get_unit_for_equivalent_children" ->
            get_unit_for_equivalent_children(node, data, host)
      [] method = "_get_unit_for_product" ->
            get_unit_for_product(node, data, host)
      [] method = "_get_unit_for_reciprocal" ->
            get_unit_for_reciprocal(node, data, host)
      [] method = "_get_unit_for_pow" ->
            get_unit_for_pow(node, data, host)
      [] method = "_get_unit_for_single_child" ->
            get_unit_for_single_child(node, data, host)
      [] method = "_get_unit_for_expr_if" ->
            get_unit_for_expr_if(node, data, host)
      [] method = "_get_dimensionless_no_children" ->
            get_dimensionless_no_children(node, data, host)
      [] method = "_get_dimensionless_with_dimensionless_children" ->
            get_dimensionless_with_dimensionless_children(node, data, host)
      [] method = "_get_dimensionless_with_radians_child" ->
            get_dimensionless_with_radians_child(node, data, host)
      [] method = "_get_radians_with_dimensionless_child" ->
            get_radians_with_dimensionless_child(node, data, host)
      [] method = "_get_unit_sqrt" ->
            get_unit_sqrt(node, data, host)
      [] method = "_get_unit_for_linear_expression" ->
            get_unit_for_linear_expression(node, data, host)

get_unit_for_unary_function(node, data, host) ==
    IF Len(data) # 1
    THEN PyErr("AssertionError", NullNode)
    ELSE IF node.name \in DOMAIN unary_function_method_map
         THEN CallRule(unary_function_method_map[node.name], node, data, host)
         ELSE PyErr("TypeError", node)

\* the pint unit of a unit leaf: getattr(self._pint_ureg, item)
LeafUnitVec(name) == IF name = "dimensionless" THEN ZeroVec ELSE UnitVec(name)

\* node._get_pint_unit(): a unit of the registry the leaf was built with
get_pint_unit(node) ==
    IF node.pint_registry = "uc"
    THEN PintUnit(LeafUnitVec(node.name))
    ELSE OtherPintUnit(LeafUnitVec(node.name))

\* exitNode that takes every leaf for a number: a unit leaf is given the
\* dimensionless unit too
exitNode_leaves_dimensionless(node, data, host) ==
    IF is_leaf(node)
    THEN Ok(UnitsTuple(container_dimensionless, ureg_dimensionless))
    ELSE IF node.type \in DOMAIN node_type_method_map
         THEN IF node_type_method_map[node.type]
                   = "_get_unit_for_unary_function"
              THEN get_unit_for_unary_function(node, data, host)
              ELSE CallRule(node_type_method_map[node.type], node, data, host)
         ELSE PyErr("TypeError", NullNode)

\* exitNode with a silent default: a node type the table does not hold is
\* given the dimensionless unit
exitNode_silent_default(node, data, host) ==
    IF is_leaf(node)
    THEN IF node.type = "_PyomoUnit"
         THEN Ok(UnitsTuple(PyomoUnit(LeafUnitVec(node.name)),
                            get_pint_unit(node)))
         ELSE Ok(UnitsTuple(container_dimensionless, ureg_dimensionless))
    ELSE IF node.type \in DOMAIN node_type_method_map
         THEN IF node_type_method_map[node.type]
                   = "_get_unit_for_unary_function"
              THEN get_unit_for_unary_function(node, data, host)
              ELSE CallRule(node_type_method_map[node.type], node, data, host)
         ELSE Ok(UnitsTuple(container_dimensionless, ureg_dimensionless))

exitNode(node, data, host) ==
    IF is_leaf(node)
    THEN IF node.type = "_PyomoUnit"
         THEN Ok(UnitsTuple(PyomoUnit(LeafUnitVec(node.name)),
                            get_pint_unit(node)))
         ELSE Ok(UnitsTuple(container_dimensionless, ureg_dimensionless))
    ELSE IF node.type \in DOMAIN node_type_method_map
         THEN IF node_type_method_map[node.type]
                   = "_get_unit_for_unary_function"
              THEN get_unit_for_unary_function(node, data, host)
              ELSE CallRule(node_type_method_map[node.type], node, data, host)
         ELSE PyErr("TypeError", NullNode)

----------------------------------------------------------------------------
(* the nodes of the host's expression trees *)

\* the unit names of the trees that are walked
WalkNames == Names \ NearMeterNames

UnitLeafNames == WalkNames \cup {"dimensionless"}

\* the unit names the host takes from another container
OtherUnitNames == {"meter"}

LeafNodes ==
    {MkNode("_PyomoUnit", n, "none", 0, NullLinear) : n \in UnitLeafNames}
    \cup {OtherUnitLeaf(n) : n \in OtherUnitNames}
    \cup {MkNode(t, "", "none", 0, NullLinear) : t \in LeafTypes \ {"_PyomoUnit"}}

\* an expression type the table does not hold
UnhandledType == "SomeOtherExpression"

InnerTypes ==
    ((DOMAIN node_type_method_map) \ {"IndexTemplate", "LinearExpression"})
    \cup {UnhandledType}

\* the numbers of children the host builds a node of each type with
Arities(type) ==
    CASE type \in {"EqualityExpression", "InequalityExpression",
                   "PowExpression", "NPV_PowExpression"} -> {2}
      [] type \in {"RangedExpression", "Expr_ifExpression"} -> {3}
      [] type \in {"SumExpression", "NPV_SumExpression"} -> 1..MaxArgs
      [] type \in {"ProductExpression", "MonomialTermExpression",
                   "NPV_ProductExpression"} -> 2..MaxArgs
      [] type \in {"GetItemExpression", "ExternalFunctionExpression",
                   "NPV_ExternalFunctionExpression"} -> 0..MaxArgs
      [] OTHER -> {1}

\* a function name the table does not hold
UnhandledName == "erf"

FunctionNames == (DOMAIN unary_function_method_map) \cup {UnhandledName}

\* value(exponent), doubled: -1, 0.5 and 2
ExponentValues == {0 - 2, 1, 4}

InnerNodes ==
    {MkNode(t, "", "none", 0, NullLinear) :
        t \in InnerTypes \ {"UnaryFunctionExpression",
                             "NPV_UnaryFunctionExpression",
                             "PowExpression", "NPV_PowExpression"}}
    \cup {MkNode(t, f, "none", 0, NullLinear) :
            t \in {"UnaryFunctionExpression", "NPV_UnaryFunctionExpression"},
            f \in FunctionNames}
    \cup {MkNode(t, "", e, v, NullLinear) :
            t \in {"PowExpression", "NPV_PowExpression"},
            e \in {"native", "fixed", "constant"}, v \in ExponentValues}
    \cup {MkNode(t, "", "free", 0, NullLinear) :
            t \in {"PowExpression", "NPV_PowExpression"}}

\* the result of visiting a plain number
NativeLeafTuple == UnitsTuple(container_dimensionless, ureg_dimensionless)

InBounds(t) ==
    /\ WholeVec(t.pyomo.u) /\ Degree(t.pyomo.u) <= 2 * MaxDeg
    /\ WholeVec(t.pint.u) /\ Degree(t.pint.u) <= 2 * MaxDeg

AllInBounds(seq) == \A i \in 1..Len(seq) : InBounds(seq[i])

\* _pint_units_equivalent is only left to the host on a pair whose pint
\* slot holds no pint unit
HostChoices(units) ==
    IF \A i \in 1..Len(units) : units[i].pint.cls = "pint"
    THEN {"T"}
    ELSE HostOutcomes

\* the operands of a LinearExpression: results of the walks of leaves and
\* of x**2 for a variable x
OperandResults ==
    {UnitsTuple(PyomoUnit(LeafUnitVec(n)), PintUnit(LeafUnitVec(n))) :
        n \in UnitLeafNames}
    \cup {UnitsTuple(container_dimensionless, container_dimensionless)}

OperandSeqs == UNION {[1..n -> OperandResults] : n \in 0..MaxTerms}

\* constant is a number (0: no constant term; any other: dimensionless) or
\* a unit-bearing object, which is truthy
LinearNodes ==
    {MkNode("LinearExpression", "", "none", 0,
            [truthy |-> FALSE, constant |-> NativeLeafTuple,
             coefs |-> c, vars |-> v]) :
        c \in OperandSeqs, v \in OperandSeqs}
    \cup {MkNode("LinearExpression", "", "none", 0,
                 [truthy |-> TRUE, constant |-> k, coefs |-> c, vars |-> v]) :
            k \in OperandResults, c \in OperandSeqs, v \in OperandSeqs}

LinearOperands(node) ==
    (IF node.linear.truthy THEN <<node.linear.constant>> ELSE <<>>)
    \o node.linear.coefs \o node.linear.vars

----------------------------------------------------------------------------
(* the units container: PyomoUnitsContainer and its pint registry *)

\* the unit names of the container's users: a name pint has built in and
\* one it has not
RegistryNames == {"meter", "widget"}

\* the attributes of the container the visitor reads
VisitorAttributes == {"dimensionless", "radians"}

ContainerNames == RegistryNames \cup VisitorAttributes

BuiltinNames == {"meter", "dimensionless", "radians"}

DimensionNames == {"Currency"}

\* conv_factor and conv_offset of create_new_unit; an offset is <<x>>,
\* and NoOffset is None
Factors == {100, 1234567}

NoOffset == <<>>

Offsets == {NoOffset, <<32>>}

Undefined == [kind |-> "undefined", base |-> "", factor |-> 0, offset |-> NoOffset]

Builtin == [kind |-> "builtin", base |-> "", factor |-> 1, offset |-> NoOffset]

UnitDef(base, factor, offset) ==
    [kind |-> "unit", base |-> base, factor |-> factor, offset |-> offset]

DimensionDef(dimension) ==
    [kind |-> "dimension", base |-> dimension, factor |-> 1, offset |-> NoOffset]

\* pint.UnitRegistry()
BuiltinDefs ==
    [n \in ContainerNames |-> IF n \in BuiltinNames THEN Builtin ELSE Undefined]

\* '{:g}'.format(float(conv_factor)): six significant digits
FormatG(f) == IF f < 1000000 THEN f ELSE ((f + 5) \div 10) * 10

\* '{:17.16g}'.format(float(x)): sixteen significant digits
Format16G(f) == f

OpRecord(kind, name, out, unit, built) ==
    [kind |-> kind, name |-> name, out |-> out, unit |-> unit, built |-> built]

NoOp == OpRecord("none", "", "ok", 0, FALSE)

\* what self._pint_ureg.define does with a name it already holds is pint's
\* choice (its on_redefinition setting): it replaces the definition, or
\* it raises
HostRedefinition == {"redefined", "raised"}

\* self._pint_ureg.define(defn_str) for the name and definition defn_str
\* gives: the registry after it and its outcome
pint_define(d, name, def, host) ==
    IF d[name] = Undefined \/ host = "redefined"
    THEN [defs |-> [d EXCEPT ![name] = def], out |-> "ok"]
    ELSE [defs |-> d, out |-> "RedefinitionError"]

create_new_unit(d, unit_name, base_unit_name, conv_factor, conv_offset, host) ==
    IF conv_offset = NoOffset
    THEN pint_define(d, unit_name,
                     UnitDef(base_unit_name, FormatG(conv_factor), NoOffset),
                     host)
    ELSE pint_define(d, unit_name,
                     UnitDef(base_unit_name, Format16G(conv_factor),
                             <<Format16G(conv_offset[1])>>),
                     host)

create_new_base_dimension(d, dimension_name, base_unit_name, host) ==
    pint_define(d, base_unit_name, DimensionDef(dimension_name), host)

Found(unit, c, m) ==
    [out |-> "ok", unit |-> unit, cache |-> c, made |-> m, built |-> unit > made]

NotFound(c, m) ==
    [out |-> "AttributeError", unit |-> 0, cache |-> c, made |-> m,
     built |-> FALSE]

\* __getattr__ without the setattr: the unit is built and returned, the
\* container keeps no attribute
container_getattr_uncached(d, c, m, item) ==
    IF d[item] # Undefined
    THEN Found(m + 1, c, m + 1)
    ELSE NotFound(c, m)

\* PyomoUnitsContainer.__getattr__(item), which Python calls when the
\* container has no attribute item: the unit pint holds under that name
\* is wrapped in a new _PyomoUnit and set as the attribute
container_getattr(d, c, m, item) ==
    IF d[item] # Undefined
    THEN Found(m + 1, [c EXCEPT ![item] = m + 1], m + 1)
    ELSE NotFound(c, m)

\* the expression uc.item
container_attribute(d, c, m, item) ==
    IF c[item] # 0
    THEN Found(c[item], c, m)
    ELSE container_getattr(d, c, m, item)

\* term k of a LinearExpression raises in _pint_units_equivalent
LinearTermRaises(node, k, host) ==
    LET ec == pint_units_equivalent(node.linear.coefs[k].pint,
                                    ureg_dimensionless, host)
        ev == pint_units_equivalent(node.linear.vars[k].pint,
                                    ureg_dimensionless, host)
    IN  ec = "X" \/ (ec = "F" /\ ev = "X")

\* the operands of a LinearExpression that _get_units_tuple is called on:
\* the constant if it is truthy, then the variable and the coefficient of
\* each term up to the first term that raises
LinearWalked(node, host) ==
    LET n == IF Len(node.linear.coefs) = Len(node.linear.vars)
             THEN Len(node.linear.vars)
             ELSE 0
        raising == {k \in 1..n : LinearTermRaises(node, k, host)}
        upto == IF raising = {} THEN n ELSE MinOf(raising)
    IN  (IF node.linear.truthy THEN {node.linear.constant} ELSE {})
        \cup {node.linear.vars[k] : k \in 1..upto}
        \cup {node.linear.coefs[k] : k \in 1..upto}

NoAttribute == ""

\* the attribute self._pyomo_units_container.<name> a rule reads on the
\* way to its outcome, NoAttribute if it reads none.  The walk of an
\* operand of a LinearExpression reads dimensionless when the operand holds
\* a number or a variable, which its result shows: the dimensionless
\* _PyomoUnit in the first slot.
RuleAttribute(method, node, data, host) ==
    CASE method = "_get_unit_for_product" ->
            IF Len(data) > 1 THEN "dimensionless" ELSE NoAttribute
      [] method \in {"_get_dimensionless_no_children",
                     "_get_dimensionless_with_radians_child"} ->
            IF CallRule(method, node, data, host).type = "ok"
            THEN "dimensionless" ELSE NoAttribute
      [] method = "_get_radians_with_dimensionless_child" ->
            IF CallRule(method, node, data, host).type = "ok"
            THEN "radians" ELSE NoAttribute
      [] method = "_get_unit_sqrt" ->
            IF /\ Len(data) = 1
               /\ pint_units_equivalent(data[1].pint, ureg_dimensionless,
                                        host) = "T"
            THEN "dimensionless" ELSE NoAttribute
      [] method = "_get_unit_for_linear_expression" ->
            IF /\ Len(data) = 0
               /\ \E t \in LinearWalked(node, host) :
                      t.pyomo = container_dimensionless
            THEN "dimensionless" ELSE NoAttribute
      [] OTHER -> NoAttribute

\* the attribute of the container one call of exitNode reads
exitNode_attribute(node, data, host) ==
    IF is_leaf(node)
    THEN IF node.type = "_PyomoUnit" THEN NoAttribute ELSE "dimensionless"
    ELSE IF node.type \in DOMAIN node_type_method_map
         THEN IF node_type_method_map[node.type]
                   = "_get_unit_for_unary_function"
              THEN IF Len(data) = 1
                      /\ node.name \in DOMAIN unary_function_method_map
                   THEN RuleAttribute(unary_function_method_map[node.name],
                                      node, data, host)
                   ELSE NoAttribute
              ELSE RuleAttribute(node_type_method_map[node.type], node, data,
                                 host)
         ELSE NoAttribute

\* the container after the read of an attribute
container_read(d, c, m, item) ==
    IF item = NoAttribute
    THEN [cache |-> c, made |-> m]
    ELSE LET r == container_attribute(d, c, m, item)
         IN  [cache |-> r.cache, made |-> r.made]

\* the special methods the class _PyomoUnit defines itself; __float__ and
\* __int__ raise TypeError
PyomoUnitMethods ==
    {"__float__", "__int__", "__str__", "__nonzero__", "__bool__", "__call__"}

RaisingMethods == {"__float__", "__int__"}

InPlaceMethods ==
    {"__iadd__", "__isub__", "__imul__", "__idiv__", "__itruediv__", "__ipow__"}

\* unit.method(...) for a special method: the class's own definition, or
\* else the NumericValue base class implementation, which builds an
\* expression
unit_method(method) ==
    IF method \in PyomoUnitMethods
    THEN IF method \in RaisingMethods THEN "TypeError" ELSE "ok"
    ELSE "ok"

\* uc.name
Lookup ==
    \E name \in RegistryNames :
        LET r == container_attribute(defs, cache, made, name)
        IN  /\ r.made <= MaxInstances
            /\ cache' = r.cache
            /\ made' = r.made
            /\ op' = OpRecord("lookup", name, r.out, r.unit, r.built)
            /\ UNCHANGED <<defs, walker, api, result, solvers>>

HostRedefinitions(name) ==
    IF defs[name] = Undefined THEN {"redefined"} ELSE HostRedefinition

\* uc.create_new_unit(unit_name, base_unit_name, conv_factor, conv_offset)
CreateNewUnit ==
    \E unit_name \in RegistryNames, base_unit_name \in RegistryNames,
       conv_factor \in Factors, conv_offset \in Offsets :
        \E host \in HostRedefinitions(unit_name) :
            LET r == create_new_unit(defs, unit_name, base_unit_name,
                                     conv_factor, conv_offset, host)
            IN  /\ defs' = r.defs
                /\ op' = OpRecord("create_new_unit", unit_name, r.out, 0, FALSE)
                /\ UNCHANGED <<cache, made, walker, api, result, solvers>>

\* uc.create_new_base_dimension(dimension_name, base_unit_name)
CreateNewBaseDimension ==
    \E dimension_name \in DimensionNames, base_unit_name \in RegistryNames :
        \E host \in HostRedefinitions(base_unit_name) :
            LET r == create_new_base_dimension(defs, dimension_name,
                                               base_unit_name, host)
            IN  /\ defs' = r.defs
                /\ op' = OpRecord("create_new_base_dimension", base_unit_name,
                                  r.out, 0, FALSE)
                /\ UNCHANGED <<cache, made, walker, api, result, solvers>>

\* u op= other, for u the unit uc.name
InPlace ==
    \E name \in RegistryNames, method \in InPlaceMethods :
        /\ cache[name] # 0
        /\ op' = OpRecord(method, name, unit_method(method), cache[name], FALSE)
        /\ UNCHANGED <<defs, cache, made, walker, api, result, solvers>>

NextRegistry == Lookup \/ CreateNewUnit \/ CreateNewBaseDimension \/ InPlace

----------------------------------------------------------------------------
(* the walk *)

NoCall == [node |-> NullNode, data |-> <<>>, out |-> Ok(NullTuple)]

\* the public functions: get_units(expr, container) and
\* check_units_consistency(expr, container, allow_exceptions)
Apis ==
    {[name |-> "get_units", allow_exceptions |-> TRUE]}
    \cup {[name |-> "check_units_consistency", allow_exceptions |-> a] :
            a \in BOOLEAN}

Returned(kind, val) == [kind |-> kind, val |-> val, err |-> "none"]

Raised(err) == [kind |-> "raised", val |-> NullObj, err |-> err]

Pending == Returned("pending", NullObj)

\* get_units with a best-effort result: a walk that raised gives the
\* dimensionless unit
get_units_best_effort(outcome) ==
    IF outcome.type = "ok"
    THEN Returned("unit", outcome.val.pyomo)
    ELSE Returned("unit", container_dimensionless)

\* get_units, given the outcome of _get_units_tuple
get_units(outcome) ==
    IF outcome.type = "ok"
    THEN Returned("unit", outcome.val.pyomo)
    ELSE Raised(outcome.type)

\* check_units_consistency with an except clause for the units errors only
check_units_consistency_except_units(outcome, allow_exceptions) ==
    IF outcome.type = "ok"
    THEN Returned("True", NullObj)
    ELSE IF allow_exceptions = TRUE
         THEN Raised(outcome.type)
         ELSE IF outcome.type \in {"UnitsError", "InconsistentUnitsError",
                                   "TypeError"}
              THEN Returned("False", NullObj)
              ELSE Raised(outcome.type)

\* check_units_consistency, given the outcome of _get_units_tuple
check_units_consistency(outcome, allow_exceptions) ==
    IF allow_exceptions = TRUE
    THEN IF outcome.type = "ok"
         THEN Returned("True", NullObj)
         ELSE Raised(outcome.type)
    ELSE IF outcome.type = "ok"
         THEN Returned("True", NullObj)
         ELSE Returned("False", NullObj)

ApiResult(call, outcome) ==
    IF call.name = "get_units"
    THEN get_units(outcome)
    ELSE check_units_consistency(outcome, call.allow_exceptions)

\* the solver options a model run can set; 0 stands for an option not set
OptionNames == {"tol", "iter"}

NoOptions == [k \in OptionNames |-> 0]

\* an options object: which object it is, and what it holds
Options(object, contents) == [object |-> object, contents |-> contents]

\* the record of a launch: the function entered, the options it was
\* given, how it ended, whether the solver was spawned and with which
\* arguments, and the lines of the options file
Launched(function, given, out, spawned, args, option_file) ==
    [function |-> function, given |-> given, out |-> out,
     spawned |-> spawned, args |-> args, option_file |-> option_file]

NoLaunch == Launched("none", <<>>, "ok", FALSE, <<>>, <<>>)

\* a dict with no key
EmptyMap == [k \in {} |-> 0]

\* the record of a call: the method, its argument, how it ended and the
\* calls of plugin methods it made, in order
MethodCall(name, arg, out, trace) ==
    [name |-> name, arg |-> arg, out |-> out, trace |-> trace]

NoMethodCall == MethodCall("none", "", "ok", <<>>)

\* a new solver interface
InitPersistent ==
    /\ added_blocks = <<>>
    /\ method_call = NoMethodCall
    /\ options = Options(0, NoOptions)
    /\ launch = NoLaunch
    /\ solver_model = {}
    /\ symbol_map = {}
    /\ labeler = {}
    /\ pyomo_con_to_solver_con_map = EmptyMap
    /\ vars_referenced_by_con = EmptyMap
    /\ vars_referenced_by_obj = {}
    /\ referenced_variables = EmptyMap
    /\ pyomo_var_to_solver_var_map = EmptyMap

\* no walk has begun, the container is new
InitUnits ==
    /\ stack = <<>>
    /\ status = "walking"
    /\ last = NoCall
    /\ api \in Apis
    /\ result = Pending
    /\ defs = BuiltinDefs
    /\ cache = [n \in ContainerNames |-> 0]
    /\ made = 0
    /\ op = NoOp

Init == InitUnits /\ InitPersistent

\* exitNode(node, data) is called: the children's results leave the
\* walker's list of pending results, the call's outcome is in flight, and
\* the container holds the attribute the call has read
Exit(node, data, rest, host) ==
    LET r == container_read(defs, cache, made,
                            exitNode_attribute(node, data, host))
    IN  /\ last' = [node |-> node, data |-> data,
                    out |-> exitNode(node, data, host)]
        /\ stack' = rest
        /\ status' = "exited"
        /\ cache' = r.cache
        /\ made' = r.made
        /\ UNCHANGED <<api, result, defs, op, solvers>>

ExitLeaf ==
    /\ status = "walking"
    /\ Len(stack) < MaxArgs
    /\ AllInBounds(stack)
    /\ \E node \in LeafNodes : Exit(node, <<>>, stack, "T")

ExitInner ==
    /\ status = "walking"
    /\ \E node \in InnerNodes :
         \E n \in Arities(node.type) :
            /\ n <= Len(stack)
            /\ Len(stack) - n < MaxArgs
            /\ LET data == SubSeq(stack, Len(stack) - n + 1, Len(stack))
                   rest == SubSeq(stack, 1, Len(stack) - n)
               IN  /\ AllInBounds(data)
                   /\ node.exponent = "native" => data[2] = NativeLeafTuple
                   /\ \E host \in HostChoices(data) :
                         Exit(node, data, rest, host)

ExitLinear ==
    /\ status = "walking"
    /\ stack = <<>>
    /\ \E node \in LinearNodes :
         \E host \in HostChoices(LinearOperands(node)) :
            Exit(node, <<>>, stack, host)

\* the walker takes the outcome of the call: the result waits for the
\* parent, or the error leaves walk_expression
Deliver ==
    /\ status = "exited"
    /\ IF last.out.type = "ok"
       THEN /\ stack' = Append(stack, last.out.val)
            /\ status' = "walking"
            /\ last' = NoCall
            /\ UNCHANGED result
       ELSE /\ stack' = <<>>
            /\ status' = "raised"
            /\ last' = last
            /\ result' = ApiResult(api, last.out)
    /\ UNCHANGED <<api, registry, solvers>>

\* walk_expression returns the root's result
Return ==
    /\ status = "walking"
    /\ Len(stack) = 1
    /\ status' = "returned"
    /\ result' = ApiResult(api, Ok(stack[1]))
    /\ UNCHANGED <<stack, last, api, registry, solvers>>

\* the next call of get_units / check_units_consistency
NewWalk ==
    /\ status \in {"returned", "raised"}
    /\ stack' = <<>>
    /\ status' = "walking"
    /\ last' = NoCall
    /\ api' \in Apis
    /\ result' = Pending
    /\ UNCHANGED <<registry, solvers>>

Next == ExitLeaf \/ ExitInner \/ ExitLinear \/ Deliver \/ Return \/ NewWalk

Spec == Init /\ [][Next]_vars

\* the operations on the container and on its units
SpecRegistry == Init /\ [][NextRegistry]_vars

\* the results of children whose units are the meter and the units a user
\* has defined next to it
NearMeterResults ==
    {UnitsTuple(PyomoUnit(UnitVec(n)), PintUnit(UnitVec(n))) :
        n \in {"meter", "kilometer"} \cup NearMeterNames}

\* exitNode(node, data) for a node whose children must have equivalent
\* units, on such children
ExitNearMeter ==
    /\ status \in {"walking", "exited"}
    /\ stack = <<>>
    /\ \E node \in InnerNodes :
         /\ node.type \in DOMAIN node_type_method_map
         /\ node_type_method_map[node.type]
               = "_get_unit_for_equivalent_children"
         /\ \E n \in Arities(node.type) :
               \E data \in [1..n -> NearMeterResults] :
                  Exit(node, data, stack, "T")

NextEquivalence == ExitNearMeter

\* the rule of the nodes with equivalent children, on units that are
\* nearly equal
SpecEquivalence == Init /\ [][NextEquivalence]_vars

----------------------------------------------------------------------------
(* PersistentSolver: the public methods of persistent_solver.py.  What a   *)
(* method hands to the solver plugin (_add_block, _remove_constraint, ...) *)
(* is kept as the plugin sees it.                                          *)

\* Largest number of sub-blocks of an indexed block.
MaxSubBlocks == 2

\* Largest number of blocks handed to _add_block.
MaxAddedBlocks == 3

\* the block data objects of the host's model
BlockNames == {"b1", "b2"}

BlockData(name) == [is_indexed |-> FALSE, name |-> name, values |-> <<>>]

\* an indexed block; values() gives its sub-blocks, block data objects
IndexedBlock(names) == [is_indexed |-> TRUE, name |-> "B", values |-> names]

SubBlock(block, i) == BlockData(block.values[i])

Injective(seq) ==
    \A i \in 1..Len(seq) : \A j \in 1..Len(seq) : seq[i] = seq[j] => i = j

Blocks ==
    {BlockData(n) : n \in BlockNames}
    \cup {IndexedBlock(names) :
            names \in {q \in UNION {[1..k -> BlockNames] : k \in 0..MaxSubBlocks} :
                          Injective(q)}}

\* self._add_block(block) is the plugin's: it returns or raises
PluginOutcomes == {"ok", "raises"}

\* the _add_block calls add_block makes when none raises
add_block_calls(block) ==
    IF block.is_indexed
    THEN [i \in 1..Len(block.values) |-> block]
    ELSE <<block>>

\* add_block(block): the blocks of the solver's model after it, the calls
\* made and the outcome; `host` is the outcome of the first _add_block call
add_block(added, block, host) ==
    LET calls == add_block_calls(block)
    IN  IF calls = <<>>
        THEN [added |-> added, trace |-> <<>>, out |-> "ok"]
        ELSE IF host = "raises"
             THEN [added |-> added, trace |-> <<calls[1]>>, out |-> "raised"]
             ELSE [added |-> added \o calls, trace |-> calls, out |-> "ok"]

\* solver.add_block(block)
AddBlock ==
    \E block \in Blocks, host \in PluginOutcomes :
        LET r == add_block(added_blocks, block, host)
        IN  /\ Len(r.added) <= MaxAddedBlocks
            /\ added_blocks' = r.added
            /\ method_call' = MethodCall("add_block", block, r.out, r.trace)
            /\ UNCHANGED <<unit_state, remembered, options, launch>>

NextAddBlock == AddBlock

SpecAddBlock == Init /\ [][NextAddBlock]_vars

----------------------------------------------------------------------------
(* PersistentSolver: remove_constraint, remove_sos_constraint, remove_var  *)

\* the constraint data objects and the variable data objects of the model
ConNames == {"c1", "c2"}

VarNames == {"x", "y"}

\* an indexed constraint and an indexed variable, with their values()
IndexedNames == {"C", "V"}

values(component) ==
    IF component = "C" THEN <<"c1", "c2">>
    ELSE IF component = "V" THEN <<"x", "y">>
    ELSE <<>>

is_indexed(component) == component \in IndexedNames

\* the solver's own object for a Pyomo component
SolverObject(component) == [pyomo |-> component]

\* del d[key]
Del(d, key) == [k \in DOMAIN d \ {key} |-> d[k]]

\* what the interface remembers, as one value
Remembered ==
    [model |-> solver_model, symbols |-> symbol_map, labels |-> labeler,
     con_map |-> pyomo_con_to_solver_con_map,
     con_vars |-> vars_referenced_by_con,
     referenced |-> referenced_variables,
     var_map |-> pyomo_var_to_solver_var_map]

\* A call into code outside this class returns or raises: the plugin's
\* _remove_constraint, _remove_sos_constraint or _remove_var, the symbol
\* map's removeSymbol, the labeler's remove_obj.  The outcome names the
\* call that raises.
RemovalOutcomes == {"ok", "plugin", "removeSymbol", "remove_obj"}

\* the order in which `for var in self._vars_referenced_by_con[con]` visits
\* the variables: `first` comes first
VisitOrder(first, referenced) ==
    LET rest == referenced \ {first}
        tail == IF rest = {} THEN <<>> ELSE <<CHOOSE v \in rest : TRUE>>
    IN  IF first \in referenced THEN <<first>> \o tail ELSE tail

\* for var in ...: self._referenced_variables[var] -= 1 ; a variable with
\* no entry raises KeyError, the entries before it are decremented
RECURSIVE Decrement(_, _, _)
Decrement(referenced, order, i) ==
    IF i > Len(order) THEN [referenced |-> referenced, out |-> "ok"]
    ELSE IF order[i] \notin DOMAIN referenced
         THEN [referenced |-> referenced, out |-> "KeyError"]
         ELSE Decrement([referenced EXCEPT ![order[i]] = @ - 1], order, i + 1)

Removal(st, out, trace) == [st |-> st, out |-> out, trace |-> trace]

\* remove_con_data without the loop that decrements the counts
remove_con_data_keeps_counts(st, con, host, first, plugin) ==
    IF con \notin DOMAIN st.con_map THEN Removal(st, "KeyError", <<>>)
    ELSE
    LET solver_con == st.con_map[con]
        trace == <<<<plugin, solver_con>>>>
        st1 == [st EXCEPT !.model = @ \ {solver_con}]
        st2 == [st1 EXCEPT !.symbols = @ \ {con}]
        st3 == [st2 EXCEPT !.labels = @ \ {con}]
    IN  IF host = "plugin" THEN Removal(st, "raised", trace)
        ELSE IF host = "removeSymbol" THEN Removal(st1, "raised", trace)
        ELSE IF host = "remove_obj" THEN Removal(st2, "raised", trace)
        ELSE IF con \notin DOMAIN st.con_vars
             THEN Removal(st3, "KeyError", trace)
        ELSE Removal([st3 EXCEPT !.con_vars = Del(@, con),
                                 !.con_map = Del(@, con)],
                     "ok", trace)

\* remove_constraint and remove_sos_constraint on a constraint data object;
\* `plugin` is the plugin method the solver's constraint is handed to
remove_con_data(st, con, host, first, plugin) ==
    IF con \notin DOMAIN st.con_map THEN Removal(st, "KeyError", <<>>)
    ELSE
    LET solver_con == st.con_map[con]
        trace == <<<<plugin, solver_con>>>>
        st1 == [st EXCEPT !.model = @ \ {solver_con}]
        st2 == [st1 EXCEPT !.symbols = @ \ {con}]
        st3 == [st2 EXCEPT !.labels = @ \ {con}]
    IN  IF host = "plugin" THEN Removal(st, "raised", trace)
        ELSE IF host = "removeSymbol" THEN Removal(st1, "raised", trace)
        ELSE IF host = "remove_obj" THEN Removal(st2, "raised", trace)
        ELSE IF con \notin DOMAIN st.con_vars
             THEN Removal(st3, "KeyError", trace)
        ELSE
        LET d == Decrement(st.referenced,
                           VisitOrder(first, st.con_vars[con]), 1)
            st4 == [st3 EXCEPT !.referenced = d.referenced]
        IN  IF d.out # "ok" THEN Removal(st4, d.out, trace)
            ELSE Removal([st4 EXCEPT !.con_vars = Del(@, con),
                                     !.con_map = Del(@, con)],
                         "ok", trace)

\* remove_var_data without the test of the count
remove_var_data_unchecked(st, var, host) ==
    IF var \notin DOMAIN st.referenced THEN Removal(st, "KeyError", <<>>)
    ELSE IF var \notin DOMAIN st.var_map THEN Removal(st, "KeyError", <<>>)
    ELSE
    LET solver_var == st.var_map[var]
        trace == <<<<"_remove_var", solver_var>>>>
        st1 == [st EXCEPT !.model = @ \ {solver_var}]
        st2 == [st1 EXCEPT !.symbols = @ \ {var}]
        st3 == [st2 EXCEPT !.labels = @ \ {var}]
    IN  IF host = "plugin" THEN Removal(st, "raised", trace)
        ELSE IF host = "removeSymbol" THEN Removal(st1, "raised", trace)
        ELSE IF host = "remove_obj" THEN Removal(st2, "raised", trace)
        ELSE Removal([st3 EXCEPT !.referenced = Del(@, var),
                                 !.var_map = Del(@, var)],
                     "ok", trace)

\* remove_var on a variable data object
remove_var_data(st, var, host) ==
    IF var \notin DOMAIN st.referenced THEN Removal(st, "KeyError", <<>>)
    ELSE IF st.referenced[var] # 0 THEN Removal(st, "ValueError", <<>>)
    ELSE IF var \notin DOMAIN st.var_map THEN Removal(st, "KeyError", <<>>)
    ELSE
    LET solver_var == st.var_map[var]
        trace == <<<<"_remove_var", solver_var>>>>
        st1 == [st EXCEPT !.model = @ \ {solver_var}]
        st2 == [st1 EXCEPT !.symbols = @ \ {var}]
        st3 == [st2 EXCEPT !.labels = @ \ {var}]
    IN  IF host = "plugin" THEN Removal(st, "raised", trace)
        ELSE IF host = "removeSymbol" THEN Removal(st1, "raised", trace)
        ELSE IF host = "remove_obj" THEN Removal(st2, "raised", trace)
        ELSE Removal([st3 EXCEPT !.referenced = Del(@, var),
                                 !.var_map = Del(@, var)],
                     "ok", trace)

\* one of the three methods on a data object
remove_data(method, st, component, host, first) ==
    IF method = "remove_var" THEN remove_var_data(st, component, host)
    ELSE IF method = "remove_sos_constraint"
         THEN remove_con_data(st, component, host, first,
                              "_remove_sos_constraint")
         ELSE remove_con_data(st, component, host, first,
                              "_remove_constraint")

\* for child in component.values(): self.remove_...(child) ; the first
\* child that raises ends the loop
RECURSIVE remove_children(_, _, _, _, _, _, _)
remove_children(method, st, children, i, hosts, first, trace) ==
    IF i > Len(children) THEN Removal(st, "ok", trace)
    ELSE LET r == remove_data(method, st, children[i], hosts[i], first)
         IN  IF r.out # "ok" THEN Removal(r.st, r.out, trace \o r.trace)
             ELSE remove_children(method, r.st, children, i + 1, hosts,
                                  first, trace \o r.trace)

\* remove_constraint(con), remove_sos_constraint(con), remove_var(var)
remove(method, st, component, hosts, first) ==
    IF is_indexed(component)
    THEN remove_children(method, st, values(component), 1, hosts, first, <<>>)
    ELSE remove_data(method, st, component, hosts[1], first)

remove_constraint(st, con, hosts, first) ==
    remove("remove_constraint", st, con, hosts, first)

remove_sos_constraint(st, con, hosts, first) ==
    remove("remove_sos_constraint", st, con, hosts, first)

remove_var(st, var, hosts) == remove("remove_var", st, var, hosts, "x")

\* the number of registered constraints that reference a variable, and
\* the objective if it does
References(con_vars, obj_vars, var) ==
    Cardinality({c \in DOMAIN con_vars : var \in con_vars[c]})
    + (IF var \in obj_vars THEN 1 ELSE 0)

\* set_instance has been called: the constraints and variables of the model
\* are registered, every count is the number of references
InitRemoval ==
    /\ InitUnits
    /\ api.name = "get_units"
    /\ added_blocks = <<>>
    /\ method_call = NoMethodCall
    /\ \E registered \in SUBSET ConNames :
          /\ vars_referenced_by_con \in [registered -> SUBSET VarNames]
          /\ pyomo_con_to_solver_con_map =
                [c \in registered |-> SolverObject(c)]
    /\ vars_referenced_by_obj \in SUBSET VarNames
    /\ \E known \in SUBSET VarNames :
          /\ vars_referenced_by_obj \subseteq known
          /\ \A c \in DOMAIN vars_referenced_by_con :
                vars_referenced_by_con[c] \subseteq known
          /\ pyomo_var_to_solver_var_map = [v \in known |-> SolverObject(v)]
          /\ referenced_variables =
                [v \in known |-> References(vars_referenced_by_con,
                                            vars_referenced_by_obj, v)]
    /\ solver_model =
          {SolverObject(c) : c \in DOMAIN pyomo_con_to_solver_con_map}
          \cup {SolverObject(v) : v \in DOMAIN pyomo_var_to_solver_var_map}
    /\ symbol_map = DOMAIN pyomo_con_to_solver_con_map
                    \cup DOMAIN pyomo_var_to_solver_var_map
    /\ labeler = symbol_map
    /\ options = Options(0, NoOptions)
    /\ launch = NoLaunch

\* the state after a removal method has run
Removed(method, component, r) ==
    /\ solver_model' = r.st.model
    /\ symbol_map' = r.st.symbols
    /\ labeler' = r.st.labels
    /\ pyomo_con_to_solver_con_map' = r.st.con_map
    /\ vars_referenced_by_con' = r.st.con_vars
    /\ referenced_variables' = r.st.referenced
    /\ pyomo_var_to_solver_var_map' = r.st.var_map
    /\ method_call' = MethodCall(method, component, r.out, r.trace)
    /\ UNCHANGED <<unit_state, added_blocks, vars_referenced_by_obj, options,
                   launch>>

\* one outcome for each data object the call reaches
HostSequences(component) ==
    [1..(IF is_indexed(component) THEN Len(values(component)) ELSE 1)
        -> RemovalOutcomes]

\* solver.remove_constraint(con)
RemoveConstraint ==
    \E con \in ConNames \cup {"C"}, first \in VarNames :
    \E hosts \in HostSequences(con) :
        Removed("remove_constraint", con,
                remove_constraint(Remembered, con, hosts, first))

\* solver.remove_sos_constraint(con)
RemoveSosConstraint ==
    \E con \in ConNames \cup {"C"}, first \in VarNames :
    \E hosts \in HostSequences(con) :
        Removed("remove_sos_constraint", con,
                remove_sos_constraint(Remembered, con, hosts, first))

\* solver.remove_var(var)
RemoveVar ==
    \E var \in VarNames \cup {"V"} :
    \E hosts \in HostSequences(var) :
        Removed("remove_var", var, remove_var(Remembered, var, hosts))

NextRemoval == RemoveConstraint \/ RemoveSosConstraint \/ RemoveVar

SpecRemoval == InitRemoval /\ [][NextRemoval]_vars

----------------------------------------------------------------------------
(* PersistentSolver.solve                                                  *)

\* Largest number of options objects that replace the solver's own.
MaxOptionsObjects == 2

\* dict.update: the entries of `other` replace those of `d`
Update(d, other) == [k \in OptionNames |-> IF other[k] # 0 THEN other[k] ELSE d[k]]

\* the options of the solver before a call: none, or a tolerance
PersistentOptions == {NoOptions, [NoOptions EXCEPT !["tol"] = 1]}

\* solve(options={'tol': 2})
KeywordOptions == [NoOptions EXCEPT !["tol"] = 2]

\* solve(options_string="iter=1")
StringOptions == [NoOptions EXCEPT !["iter"] = 1]

\* What a call of solve is given and what the code outside the method
\* does: the number of positional arguments; available(); the model set
\* by set_instance (a block, or None) and whether assert statements run;
\* the options keyword (absent, a mapping, a value update() rejects); the
\* options_string keyword (absent, well formed, or one that
\* _options_string_to_dict rejects); _presolve; the status _apply_solver
\* returns, or its raising; _postsolve.
SolveInputs ==
    [args : {0, 1},
     available : {"ok", "raises"},
     model : {"block", "none"},
     asserts : BOOLEAN,
     options : {"absent", "mapping", "not_a_mapping"},
     options_string : {"absent", "well_formed", "malformed"},
     presolve : {"ok", "raises"},
     status : {"no_rc", "rc_zero", "rc_nonzero", "raises"},
     postsolve : {"ok", "raises"}]

Solved(opts, out, trace, effective) ==
    [options |-> opts, out |-> out, trace |-> trace, effective |-> effective]

\* the try block of solve with postsolve run whatever the return code
solve_try_ignores_rc(in) ==
    LET callbacks == IF in.model # "none" THEN <<"_initialize_callbacks">>
                     ELSE <<>>
        run == <<"_presolve">> \o callbacks \o <<"_apply_solver">>
    IN  IF in.presolve = "raises"
        THEN [out |-> "raised", trace |-> <<"_presolve">>]
        ELSE IF in.status = "raises"
        THEN [out |-> "raised", trace |-> run]
        ELSE IF in.postsolve = "raises"
        THEN [out |-> "raised", trace |-> run \o <<"_postsolve">>]
        ELSE [out |-> "result", trace |-> run \o <<"_postsolve">>]

\* the try block of solve: the calls made and how it ends
solve_try(in) ==
    LET callbacks == IF in.model # "none" THEN <<"_initialize_callbacks">>
                     ELSE <<>>
        run == <<"_presolve">> \o callbacks \o <<"_apply_solver">>
    IN  IF in.presolve = "raises"
        THEN [out |-> "raised", trace |-> <<"_presolve">>]
        ELSE IF in.status = "raises"
        THEN [out |-> "raised", trace |-> run]
        ELSE IF in.status = "rc_nonzero"
        THEN [out |-> "ApplicationError", trace |-> run]
        ELSE IF in.postsolve = "raises"
        THEN [out |-> "raised", trace |-> run \o <<"_postsolve">>]
        ELSE [out |-> "result", trace |-> run \o <<"_postsolve">>]

\* solve(*args, **kwds): self.options after the call, how the call ends,
\* the calls made and the options the solver ran with
solve(orig_options, in) ==
    IF in.args # 0 THEN Solved(orig_options, "ValueError", <<>>, NoOptions)
    ELSE IF in.available = "raises"
    THEN Solved(orig_options, "raised", <<"available">>, NoOptions)
    ELSE IF in.model = "none" /\ in.asserts
    THEN Solved(orig_options, "AssertionError", <<"available">>, NoOptions)
    ELSE
    LET copy == Options(orig_options.object + 1, orig_options.contents)
        with_kwd == [copy EXCEPT !.contents = Update(@, KeywordOptions)]
        after_kwd == IF in.options = "mapping" THEN with_kwd ELSE copy
        with_str == [after_kwd EXCEPT !.contents = Update(@, StringOptions)]
        after_str == IF in.options_string = "well_formed" THEN with_str
                     ELSE after_kwd
        t == solve_try(in)
    IN  IF in.options = "not_a_mapping"
        THEN Solved(copy, "TypeError", <<"available">>, NoOptions)
        ELSE IF in.options_string = "malformed"
        THEN Solved(after_kwd, "ValueError", <<"available">>, NoOptions)
        ELSE Solved(orig_options, t.out, <<"available">> \o t.trace,
                    after_str.contents)

\* a solver with its options, no call made
InitSolve ==
    /\ InitUnits
    /\ api.name = "get_units"
    /\ added_blocks = <<>>
    /\ method_call = NoMethodCall
    /\ options \in {Options(0, c) : c \in PersistentOptions}
    /\ launch = NoLaunch
    /\ solver_model = {}
    /\ symbol_map = {}
    /\ labeler = {}
    /\ pyomo_con_to_solver_con_map = EmptyMap
    /\ vars_referenced_by_con = EmptyMap
    /\ vars_referenced_by_obj = {}
    /\ referenced_variables = EmptyMap
    /\ pyomo_var_to_solver_var_map = EmptyMap

\* solver.solve(*args, **kwds)
Solve ==
    \E in \in SolveInputs :
        LET r == solve(options, in)
        IN  /\ r.options.object <= MaxOptionsObjects
            /\ options' = r.options
            /\ method_call' =
                  MethodCall("solve",
                             [args |-> in.args, status |-> in.status,
                              options |-> in.options,
                              options_string |-> in.options_string,
                              effective |-> r.effective],
                             r.out, r.trace)
            /\ UNCHANGED <<unit_state, added_blocks, remembered, launch>>

NextSolve == Solve

SpecSolve == InitSolve /\ [][NextSolve]_vars

----------------------------------------------------------------------------
(* SchurIpoptSolver._launch_solver and EXTERNAL_invoke_solve of            *)
(* schuripopt.py.  A string is a sequence of tokens: " " is white space,   *)
(* "OF_" the three characters O, F, _, every other token a word without    *)
(* white space.                                                            *)

\* Largest number of options of one launch.
MaxOptions == 2

RECURSIVE lstrip(_)
lstrip(str) ==
    IF str # <<>> /\ Head(str) = " " THEN lstrip(Tail(str)) ELSE str

RECURSIVE rstrip(_)
rstrip(str) ==
    IF str # <<>> /\ str[Len(str)] = " "
    THEN rstrip(SubSeq(str, 1, Len(str) - 1))
    ELSE str

\* str.strip()
strip(str) == rstrip(lstrip(str))

\* key.startswith("OF_")
startswith_OF(key) == key # <<>> /\ Head(key) = "OF_"

\* the option names the launcher sets itself, and two of the solver's own
ReservedNames ==
    {"use_problem_file", "mpi_spawn_mode", "option_file_name", "output_file",
     "-AMPL"}

OptionWords == ReservedNames \cup {"tol"}

\* the words written with the prefix OF_ as well
OptionFileWords == {"output_file", "tol"}

\* white space before a key, after it, or none
Paddings == {<<<<>>, <<>>>>, <<<<" ">>, <<>>>>, <<<<>>, <<" ">>>>}

\* an option key as the user writes it: a word, with or without the prefix
\* OF_, with or without white space around it
OptionKeys ==
    {pad[1] \o key \o pad[2] :
        pad \in Paddings,
        key \in {<<w>> : w \in OptionWords}
                \cup {<<"OF_", w>> : w \in OptionFileWords}}

\* the options of a launch, (key, val) pairs in the order of items()
OptionLists ==
    {q \in UNION {[1..n -> OptionKeys \X {"1"}] : n \in 0..MaxOptions} :
        \A i \in 1..Len(q) : \A j \in 1..Len(q) : q[i][1] = q[j][1] => i = j}

\* the arguments set before the user's: the last only on rank 0
FixedArgs(rank) ==
    <<<<"problem_list_filename">>,
      <<"use_problem_file", "=", "yes">>,
      <<"mpi_spawn_mode", "=", "yes">>,
      <<"option_file_name", "=", "options_filename">>>>
    \o (IF rank = 0 THEN <<<<"output_file", "=", "logfile">>>> ELSE <<>>)

\* key+"="+str(val)
KeyValue(key, val) == key \o <<"=", val>>

\* the loop of EXTERNAL_invoke_solve with the key compared as given
RECURSIVE user_args_unstripped(_, _, _)
user_args_unstripped(command_line_options, i, args) ==
    IF i > Len(command_line_options) THEN [out |-> "ok", args |-> args]
    ELSE LET key == command_line_options[i][1]
             val == command_line_options[i][2]
         IN  IF key \in {<<w>> : w \in ReservedNames}
             THEN [out |-> "ValueError", args |-> args]
             ELSE user_args_unstripped(command_line_options, i + 1,
                                       Append(args, KeyValue(key, val)))

\* for key, val in command_line_options: ... args.append(key+"="+str(val))
RECURSIVE user_args(_, _, _)
user_args(command_line_options, i, args) ==
    IF i > Len(command_line_options) THEN [out |-> "ok", args |-> args]
    ELSE LET key == strip(command_line_options[i][1])
             val == command_line_options[i][2]
         IN  IF key \in {<<w>> : w \in ReservedNames}
             THEN [out |-> "ValueError", args |-> args]
             ELSE user_args(command_line_options, i + 1,
                            Append(args, KeyValue(key, val)))

\* EXTERNAL_invoke_solve: the outcome, and the arguments of Spawn
EXTERNAL_invoke_solve(command_line_options, rank) ==
    LET r == user_args(command_line_options, 1, FixedArgs(rank))
    IN  IF r.out # "ok"
        THEN [out |-> r.out, spawned |-> FALSE, args |-> <<>>]
        ELSE [out |-> "ok", spawned |-> TRUE,
              args |-> Append(r.args, <<"-AMPL">>)]

\* the loop of _launch_solver over self.options.items(): the lines of the
\* options file and the options for the command line
RECURSIVE split_options(_, _, _, _)
split_options(items, i, lines, command_line_options) ==
    IF i > Len(items)
    THEN [out |-> "ok", lines |-> lines,
          command_line_options |-> command_line_options]
    ELSE LET key == strip(items[i][1])
             val == items[i][2]
         IN  IF startswith_OF(key)
             THEN IF key = <<"OF_", "output_file">>
                  THEN [out |-> "ValueError", lines |-> lines,
                        command_line_options |-> command_line_options]
                  ELSE split_options(items, i + 1,
                                     Append(lines, Tail(key) \o <<" ", val>>),
                                     command_line_options)
             ELSE split_options(items, i + 1, lines,
                                Append(command_line_options, <<key, val>>))

\* _launch_solver with the options `items`
launch_solver(items, rank) ==
    LET s == split_options(items, 1, <<>>, <<>>)
        r == EXTERNAL_invoke_solve(s.command_line_options, rank)
    IN  IF s.out # "ok"
        THEN Launched("_launch_solver", items, s.out, FALSE, <<>>, s.lines)
        ELSE Launched("_launch_solver", items, r.out, r.spawned, r.args,
                      s.lines)

\* the MPI ranks of a worker
Ranks == {0, 1}

\* a solver and a worker, nothing launched
InitLaunch == InitUnits /\ api.name = "get_units" /\ InitPersistent

\* solver._launch_solver(...) with self.options
LaunchSolver ==
    \E items \in OptionLists, rank \in Ranks :
        /\ launch' = launch_solver(items, rank)
        /\ UNCHANGED <<unit_state, persistent>>

\* a worker is asked for EXTERNAL_invoke_solve with command-line options
InvokeSolve ==
    \E command_line_options \in OptionLists, rank \in Ranks :
        LET r == EXTERNAL_invoke_solve(command_line_options, rank)
        IN  /\ launch' = Launched("EXTERNAL_invoke_solve",
                                  command_line_options, r.out, r.spawned,
                                  r.args, <<>>)
            /\ UNCHANGED <<unit_state, persistent>>

NextLaunch == LaunchSolver \/ InvokeSolve

SpecLaunch == InitLaunch /\ [][NextLaunch]_vars

----------------------------------------------------------------------------
(* The claims.                                                             *)
(*                                                                         *)
(* A claim about a rule is a statement about every exitNode call, that is  *)
(* about `last` in the states where a call is in flight.  The unit of a    *)
(* child is the unit its pair's Pyomo object denotes; two units are        *)
(* equivalent when they have the same dimensionality and the same factor.  *)
(***************************************************************************)

InCall == status = "exited"

Equivalent(u, v) ==
    /\ Dimensionality(u) = Dimensionality(v)
    /\ QuantityDifference(u, v) < units_equivalence_tolerance

IsDimensionless(u) == Equivalent(u, ZeroVec)

ChildUnit(t) == t.pyomo.u

\* the pair of a unit: the unit object and its backing registry unit
PairOf(u) == UnitsTuple(PyomoUnit(u), PintUnit(u))

DimensionlessPair == PairOf(ZeroVec)

\* every child's pair holds a pint unit in its pint slot
PintPairs(units) == \A i \in 1..Len(units) : units[i].pint.cls = "pint"

SumLikeTypes == {"EqualityExpression", "InequalityExpression",
                 "RangedExpression", "SumExpression", "NPV_SumExpression"}

ProductTypes == {"ProductExpression", "MonomialTermExpression",
                 "NPV_ProductExpression"}

PowTypes == {"PowExpression", "NPV_PowExpression"}

UnaryTypes == {"UnaryFunctionExpression", "NPV_UnaryFunctionExpression"}

OpaqueTypes == {"GetItemExpression", "ExternalFunctionExpression",
                "NPV_ExternalFunctionExpression"}

IsUnaryNamed(node, names) == node.type \in UnaryTypes /\ node.name \in names

\* C1, as stated: an equality, inequality, ranged or sum node raises
\* InconsistentUnitsError carrying child 0's unit, the mismatching child's
\* unit and the node if some child i>0 is not equivalent to child 0, and
\* otherwise has exactly the first child's pair as its result.
C1_Holds(call) ==
    LET d == call.data
        bad == {i \in 2..Len(d) :
                  ~Equivalent(ChildUnit(d[1]), ChildUnit(d[i]))}
    IN  IF bad # {}
        THEN /\ call.out.type = "InconsistentUnitsError"
             /\ call.out.exp1.u = ChildUnit(d[1])
             /\ \E i \in bad : call.out.exp2.u = ChildUnit(d[i])
             /\ call.out.node = call.node
        ELSE /\ call.out.type = "ok"
             /\ call.out.val = d[1]

\* C1: every equality / inequality / ranged / sum node with n >= 1
\* children: a child i>0 not equivalent to child 0 gives
\* InconsistentUnitsError with both units and the node, otherwise the
\* result is the first child's unit.
C1_SumLikeRule ==
    (InCall /\ last.node.type \in SumLikeTypes) => C1_Holds(last)

\* C1 restricted to children whose pint slot holds a pint unit.
C1_OnPintPairs ==
    (InCall /\ last.node.type \in SumLikeTypes /\ PintPairs(last.data))
        => C1_Holds(last)

\* the product of the units of the children that are not dimensionless
RECURSIVE NonDimensionlessProduct(_, _)
NonDimensionlessProduct(d, i) ==
    IF i > Len(d) THEN ZeroVec
    ELSE IF IsDimensionless(ChildUnit(d[i]))
         THEN NonDimensionlessProduct(d, i + 1)
         ELSE MulVec(ChildUnit(d[i]), NonDimensionlessProduct(d, i + 1))

C2_Holds(call) ==
    LET d == call.data
        nondim == {i \in 1..Len(d) : ~IsDimensionless(ChildUnit(d[i]))}
    IN  /\ call.out.type = "ok"
        /\ IF nondim = {}
           THEN call.out.val = DimensionlessPair
           ELSE call.out.val = PairOf(NonDimensionlessProduct(d, 1))

\* C2: every product node with n >= 2 children: the inferred unit is the
\* product of the units of the children that are not equivalent to
\* dimensionless, and the registry's dimensionless unit when all of them
\* are.
C2_ProductRule ==
    (InCall /\ last.node.type \in ProductTypes /\ Len(last.data) >= 2)
        => C2_Holds(last)

\* C2 restricted to children whose pint slot holds a pint unit.
C2_OnPintPairs ==
    (InCall /\ last.node.type \in ProductTypes /\ Len(last.data) >= 2
        /\ PintPairs(last.data)) => C2_Holds(last)

NumericExponents == {"native", "fixed", "constant"}

C3_Holds(call) ==
    LET base == ChildUnit(call.data[1])
        exponent == ChildUnit(call.data[2])
    IN  IF ~IsDimensionless(exponent)
        THEN call.out.type = "UnitsError"
        ELSE IF IsDimensionless(base) THEN TRUE
        ELSE IF call.node.exponent \notin NumericExponents
        THEN call.out.type = "UnitsError"
        ELSE /\ call.out.type = "ok"
             /\ call.out.val = PairOf(PowVec(base, call.node.value))

\* C3: every power node: UnitsError when the exponent's unit is not
\* equivalent to dimensionless; UnitsError when the base is not
\* dimensionless and the exponent is neither a plain number nor fixed or
\* constant; otherwise, for a base that is not dimensionless and an
\* exponent of value v, the result is the base's unit to the power v.
C3_PowRule ==
    (InCall /\ last.node.type \in PowTypes /\ Len(last.data) = 2)
        => C3_Holds(last)

\* C3 restricted to children whose pint slot holds a pint unit.
C3_OnPintPairs ==
    (InCall /\ last.node.type \in PowTypes /\ Len(last.data) = 2
        /\ PintPairs(last.data)) => C3_Holds(last)

C4_Case(call) ==
    /\ call.node.type \in PowTypes
    /\ Len(call.data) = 2
    /\ IsDimensionless(ChildUnit(call.data[1]))
    /\ IsDimensionless(ChildUnit(call.data[2]))

\* C4: every power node whose base is equivalent to dimensionless and
\* whose exponent's unit is dimensionless returns dimensionless in both
\* components: a Pyomo unit object that is dimensionless and a pint unit
\* that is dimensionless.
C4_PowDimensionlessBase ==
    (InCall /\ C4_Case(last)) =>
        /\ last.out.type = "ok"
        /\ last.out.val.pyomo.cls = "pyomo"
        /\ IsDimensionless(last.out.val.pyomo.u)
        /\ last.out.val.pint.cls = "pint"
        /\ IsDimensionless(last.out.val.pint.u)

\* C4 on the first component alone, for children whose pint slot holds a
\* pint unit: the unit object returned is the base's, which is
\* dimensionless.
C4_FirstComponent ==
    (InCall /\ C4_Case(last) /\ PintPairs(last.data)) =>
        /\ last.out.type = "ok"
        /\ last.out.val.pyomo = last.data[1].pyomo

TrigNames == {"sin", "cos", "tan", "sinh", "cosh", "tanh"}

InverseTrigNames == {"asin", "acos", "atan", "asinh", "acosh", "atanh"}

LogExpNames == {"log", "log10", "exp"}

RadiansVec == UnitVec("radian")

C5_Holds(call) ==
    IF Equivalent(ChildUnit(call.data[1]), RadiansVec)
    THEN call.out.type = "ok" /\ call.out.val = DimensionlessPair
    ELSE call.out.type = "UnitsError"

\* C5: every unary-function node named sin, cos, tan, sinh, cosh or tanh:
\* the result is the dimensionless unit if the argument's unit is
\* equivalent to radians, and UnitsError otherwise.
C5_TrigRule ==
    (InCall /\ IsUnaryNamed(last.node, TrigNames) /\ Len(last.data) = 1)
        => C5_Holds(last)

\* C5 restricted to an argument whose pint slot holds a pint unit.
C5_OnPintPairs ==
    (InCall /\ IsUnaryNamed(last.node, TrigNames) /\ Len(last.data) = 1
        /\ PintPairs(last.data)) => C5_Holds(last)

C6_Holds(call) ==
    IF IsDimensionless(ChildUnit(call.data[1]))
    THEN call.out.type = "ok" /\ call.out.val = PairOf(RadiansVec)
    ELSE call.out.type = "UnitsError"

\* C6: every unary-function node named asin, acos, atan, asinh, acosh or
\* atanh: the result is the radians unit if the argument's unit is
\* equivalent to dimensionless, and UnitsError otherwise.
C6_InverseTrigRule ==
    (InCall /\ IsUnaryNamed(last.node, InverseTrigNames)
        /\ Len(last.data) = 1) => C6_Holds(last)

\* C6 restricted to an argument whose pint slot holds a pint unit.
C6_OnPintPairs ==
    (InCall /\ IsUnaryNamed(last.node, InverseTrigNames)
        /\ Len(last.data) = 1 /\ PintPairs(last.data)) => C6_Holds(last)

C7_Case(call) ==
    \/ call.node.type \in OpaqueTypes
    \/ IsUnaryNamed(call.node, LogExpNames) /\ Len(call.data) = 1

C7_Holds(call) ==
    LET d == call.data IN
    IF \A i \in 1..Len(d) : IsDimensionless(ChildUnit(d[i]))
    THEN call.out.type = "ok" /\ call.out.val = DimensionlessPair
    ELSE call.out.type = "UnitsError"

\* C7: every external-function or indexed-access node and every log,
\* log10 or exp node: when all children's units are equivalent to
\* dimensionless (zero children included) the result is the
\* dimensionless unit and no other, and UnitsError otherwise.
C7_DimensionlessChildrenRule ==
    (InCall /\ C7_Case(last)) => C7_Holds(last)

\* C7 for children that are exactly the dimensionless pair, at least one
\* of them: the result is the dimensionless pair.
C7_OnDimensionlessPairs ==
    (InCall /\ C7_Case(last) /\ Len(last.data) >= 1
        /\ \A i \in 1..Len(last.data) : last.data[i] = DimensionlessPair)
        => (last.out.type = "ok" /\ last.out.val = DimensionlessPair)

\* C7, failure half, for children whose pint slot holds a pint unit: a
\* child that is not dimensionless gives UnitsError.
C7_RejectsOnPintPairs ==
    (InCall /\ C7_Case(last) /\ PintPairs(last.data)
        /\ \E i \in 1..Len(last.data) :
               ~IsDimensionless(ChildUnit(last.data[i])))
        => last.out.type = "UnitsError"

C8_Holds(call) ==
    LET d == call.data IN
    IF Equivalent(ChildUnit(d[2]), ChildUnit(d[3]))
    THEN call.out.type = "ok" /\ call.out.val = d[2]
    ELSE /\ call.out.type = "InconsistentUnitsError"
         /\ call.out.exp1.u = ChildUnit(d[2])
         /\ call.out.exp2.u = ChildUnit(d[3])

\* C8: every Expr_if node with children (predicate, then, else):
\* InconsistentUnitsError if the then and else units are not equivalent,
\* otherwise the result is the then branch's unit, whatever the
\* predicate's unit.
C8_ExprIfRule ==
    (InCall /\ last.node.type = "Expr_ifExpression" /\ Len(last.data) = 3)
        => C8_Holds(last)

\* C8 restricted to children whose pint slot holds a pint unit.
C8_OnPintPairs ==
    (InCall /\ last.node.type = "Expr_ifExpression" /\ Len(last.data) = 3
        /\ PintPairs(last.data)) => C8_Holds(last)

\* the unit of term k of a linear expression: the variable's when the
\* coefficient is dimensionless, the coefficient's when the variable is,
\* and their product otherwise
TermUnit(linear, k) ==
    LET c == ChildUnit(linear.coefs[k])
        v == ChildUnit(linear.vars[k])
    IN  IF IsDimensionless(c) THEN v
        ELSE IF IsDimensionless(v) THEN c
        ELSE MulVec(c, v)

\* the units that take part: the constant's, if there is one, and every
\* term's
LinearUnits(linear) ==
    (IF linear.truthy THEN {ChildUnit(linear.constant)} ELSE {})
    \cup {TermUnit(linear, k) : k \in 1..Len(linear.vars)}

C9_Case(call) ==
    /\ call.node.type = "LinearExpression"
    /\ Len(call.node.linear.coefs) = Len(call.node.linear.vars)
    /\ (call.node.linear.truthy \/ Len(call.node.linear.vars) >= 1)

C9_Holds(call) ==
    LET units == LinearUnits(call.node.linear) IN
    IF \A u \in units : \A w \in units : Equivalent(u, w)
    THEN /\ call.out.type = "ok"
         /\ \A u \in units : Equivalent(ChildUnit(call.out.val), u)
    ELSE call.out.type = "InconsistentUnitsError"

\* C9: every linear-expression node with a non-empty term list: each
\* term's unit is the variable's if the coefficient is dimensionless, the
\* coefficient's if the variable is dimensionless, their product
\* otherwise; the constant's unit takes part if there is a constant; the
\* walk succeeds when all these units are mutually equivalent and raises
\* InconsistentUnitsError when they are not.
C9_LinearRule ==
    (InCall /\ C9_Case(last)) => C9_Holds(last)

\* C9 restricted to operands whose pint slot holds a pint unit.
C9_OnPintPairs ==
    (InCall /\ C9_Case(last) /\ PintPairs(LinearOperands(last.node)))
        => C9_Holds(last)

UnitsErrorTaxonomy == {"UnitsError", "InconsistentUnitsError"}

C10_Case(call) ==
    /\ call.node.type = "LinearExpression"
    /\ ~call.node.linear.truthy
    /\ call.node.linear.coefs = <<>>
    /\ call.node.linear.vars = <<>>

\* C10: a linear-expression node with no constant and no variable terms
\* fails with an error of the units error taxonomy (UnitsError or its
\* subtype InconsistentUnitsError) and never returns a unit.
C10_EmptyLinear ==
    (InCall /\ C10_Case(last)) => last.out.type \in UnitsErrorTaxonomy

\* C10, the half the code keeps: the empty linear expression never
\* returns a unit.
C10_NeverReturns ==
    (InCall /\ C10_Case(last)) => last.out.type # "ok"

C11_Case(call) ==
    /\ ~is_leaf(call.node)
    /\ \/ call.node.type \notin DOMAIN node_type_method_map
       \/ /\ call.node.type \in UnaryTypes
          /\ call.node.name \notin DOMAIN unary_function_method_map

\* C11: every node that is no leaf and whose type the node-type table does
\* not hold, and every unary-function node whose name the function-name
\* table does not hold, raises TypeError: it is never given the
\* dimensionless unit or any other unit.
C11_UnhandledRaisesTypeError ==
    (InCall /\ C11_Case(last)) => last.out.type = "TypeError"

\* an unhandled node type was exited, and an unhandled function name
C11_Witness ==
    /\ InCall
    /\ last.node.type = UnhandledType
    /\ Len(last.data) = 1
    /\ last.out.type = "TypeError"

C11_WitnessFunction ==
    /\ InCall
    /\ last.node.type \in UnaryTypes
    /\ last.node.name = UnhandledName
    /\ last.out.type = "TypeError"

ApiDone == status \in {"returned", "raised"}

\* the outcome of _get_units_tuple in the call that has just ended
WalkOutcome == IF status = "returned" THEN Ok(stack[1]) ELSE last.out

IsCheck(allow) ==
    api = [name |-> "check_units_consistency", allow_exceptions |-> allow]

\* C12: for every tree, check_units_consistency with
\* allow_exceptions=False returns True if and only if get_units on that
\* tree does not raise and False if and only if it raises; with
\* allow_exceptions=True it raises exactly when get_units raises and
\* returns True otherwise.
C12_CheckAgreesWithGetUnits ==
    (ApiDone /\ api.name = "check_units_consistency") =>
        LET g == get_units(WalkOutcome)
        IN  IF api.allow_exceptions
            THEN /\ (result.kind = "raised") <=> (g.kind = "raised")
                 /\ (result.kind # "raised") => (result.kind = "True")
            ELSE /\ (result.kind = "True") <=> (g.kind # "raised")
                 /\ (result.kind = "False") <=> (g.kind = "raised")

\* a check with allow_exceptions=False has ended on a tree whose walk
\* raised, and has returned False
C12_Witness ==
    /\ status = "raised"
    /\ IsCheck(FALSE)
    /\ result.kind = "False"

\* the errors of the units taxonomy a walk can raise
TaxonomyErrors == {"UnitsError", "InconsistentUnitsError", "TypeError"}

\* C13: check_units_consistency with allow_exceptions=False turns into
\* False only the errors of the units taxonomy; a failure of the walk that
\* is not of the taxonomy is not masked: it reaches the caller.
C13_OnlyTaxonomyMasked ==
    (status = "raised" /\ IsCheck(FALSE)) =>
        IF last.out.type \in TaxonomyErrors
        THEN result.kind = "False"
        ELSE result = Raised(last.out.type)

\* C13, the half the code keeps: an error of the taxonomy gives False.
C13_TaxonomyGivesFalse ==
    (status = "raised" /\ IsCheck(FALSE) /\ last.out.type \in TaxonomyErrors)
        => result.kind = "False"

\* the last operation was the lookup of a name pint does not hold
UnknownLookup == op.kind = "lookup" /\ defs[op.name] = Undefined

\* C14: the lookup of a unit name that is neither built in nor defined
\* fails with UndefinedUnitError and binds nothing in the container.
C14_UnknownLookupFails ==
    UnknownLookup =>
        (op.out = "UndefinedUnitError" /\ cache[op.name] = 0)

\* C14, as the code has it: the lookup fails with AttributeError and binds
\* nothing, so that a later lookup fails the same way.
C14_FailsWithAttributeError ==
    UnknownLookup =>
        (op.out = "AttributeError" /\ cache[op.name] = 0 /\ ~op.built)

IsLookup(o) == o.kind = "lookup" /\ o.out = "ok"

\* C15: the lookup of a known name is a memoizing accessor: the unit a
\* lookup returns is the attribute the container holds for the name; a
\* name that has its attribute keeps it for ever, and a lookup of such a
\* name returns it without building a new unit.  So any two lookups of
\* one name return the identical _PyomoUnit.
C15_LookupMemoized ==
    [][/\ \A n \in RegistryNames : cache[n] # 0 => cache'[n] = cache[n]
       /\ IsLookup(op') =>
            /\ op'.unit # 0
            /\ op'.unit = cache'[op'.name]
            /\ cache[op'.name] # 0 => (made' = made /\ ~op'.built)]_vars

\* a lookup was served from the attribute an earlier lookup had set
C15_Witness ==
    /\ IsLookup(op)
    /\ ~op.built
    /\ op.unit = cache[op.name]
    /\ made >= 1

IsDuplicate(o, d) ==
    o.kind = "create_new_unit" /\ d[o.name] # Undefined

\* C16: a unit name once bound keeps its unit value for the lifetime of
\* the registry: no operation changes the definition of a defined name,
\* and create_new_unit with a unit_name that already exists fails with
\* the duplicate-unit error and leaves the registry unchanged.
C16_BoundNamesImmutable ==
    [][/\ \A n \in RegistryNames : defs[n] # Undefined => defs'[n] = defs[n]
       /\ IsDuplicate(op', defs) =>
            (op'.out = "RedefinitionError" /\ UNCHANGED <<defs, cache>>)]_vars

\* C16, what holds whatever pint does with a duplicate: the attribute the
\* container holds for a name is never replaced or removed.
C16_AttributesKept ==
    [][\A n \in RegistryNames : cache[n] # 0 => cache'[n] = cache[n]]_vars

IsInPlace(o) == o.kind \in InPlaceMethods

\* C17: every in-place operation with a unit as its target (+=, -=, *=,
\* /=, **=) fails with an error.
C17_InPlaceFails ==
    IsInPlace(op) => op.out # "ok"

\* C17, the half the code keeps: the unit, its definition and the
\* container's attributes are unchanged by an in-place operation.
C17_UnitUnchanged ==
    [][IsInPlace(op') => UNCHANGED <<defs, cache, made>>]_vars

\* a rule is evaluated: exitNode is called for a node
RuleEvaluated == status = "walking" /\ status' = "exited"

\* C18: one call of the API is one post-order traversal.  A node's rule is
\* evaluated on the units already assigned to its children, which it takes
\* from the pending results; a rule that succeeds assigns its node exactly
\* one unit; once a rule raises, the walk is over: no other rule is
\* evaluated, the pending results are dropped and the call returns no
\* unit; a call that succeeds ends with the root's unit as the only
\* pending result, every other unit having gone to the rule of its parent.
C18_OnePostOrderTraversal ==
    [][/\ RuleEvaluated => (stack = stack' \o last'.data)
       /\ (status = "exited" /\ last.out.type = "ok") =>
            (status' = "walking" /\ stack' = Append(stack, last.out.val))
       /\ (status = "exited" /\ last.out.type # "ok") =>
            (status' = "raised" /\ stack' = <<>> /\ result'.kind # "unit")
       /\ status = "raised" =>
            (status' = "walking" /\ stack' = <<>> /\ result' = Pending)
       /\ status' = "returned" =>
            /\ Len(stack') = 1
            /\ last' = NoCall
            /\ api.name = "get_units" =>
                 result' = Returned("unit", stack'[1].pyomo)]_vars

\* a rule has raised on a node with children, and the call has ended
\* without a unit
C18_Witness ==
    /\ status = "raised"
    /\ Len(last.data) >= 2
    /\ last.out.type = "InconsistentUnitsError"
    /\ stack = <<>>
    /\ result = Raised("InconsistentUnitsError")

\* C19: every leaf is assigned a unit and never raises: a unit leaf its
\* own unit, every other leaf (number, variable, parameter, other symbol)
\* the container's dimensionless unit.
C19_LeafRule ==
    (InCall /\ is_leaf(last.node)) =>
        /\ last.out.type = "ok"
        /\ IF last.node.type = "_PyomoUnit"
           THEN /\ last.out.val.pyomo = PyomoUnit(LeafUnitVec(last.node.name))
                /\ last.out.val.pint = get_pint_unit(last.node)
           ELSE last.out.val = DimensionlessPair

\* the unit leaf meter has been exited with its own unit
C19_Witness ==
    /\ InCall
    /\ last.node.type = "_PyomoUnit"
    /\ last.node.name = "meter"
    /\ last.out = Ok(PairOf(UnitVec("meter")))

\* a variable has been exited with the dimensionless unit
C19_WitnessVar ==
    /\ InCall
    /\ last.node.type = "Var"
    /\ last.out = Ok(DimensionlessPair)

ReciprocalTypes == {"ReciprocalExpression", "NPV_ReciprocalExpression"}

C20_Case(call) ==
    call.node.type \in ReciprocalTypes /\ Len(call.data) = 1

C20_Holds(call) ==
    LET U == ChildUnit(call.data[1]) IN
    /\ call.out.type = "ok"
    /\ IF IsDimensionless(U)
       THEN IsDimensionless(ChildUnit(call.out.val))
       ELSE IsDimensionless(MulVec(U, ChildUnit(call.out.val)))

\* C20: every reciprocal node: a child unit equivalent to dimensionless
\* gives a unit equivalent to dimensionless, any other child unit U gives
\* a unit R such that the product of U and R is equivalent to
\* dimensionless.
C20_ReciprocalRule ==
    (InCall /\ C20_Case(last)) => C20_Holds(last)

\* C20 restricted to a child whose pint slot holds a pint unit; both
\* components of the result are then the reciprocal.
C20_OnPintPairs ==
    (InCall /\ C20_Case(last) /\ PintPairs(last.data)) =>
        /\ C20_Holds(last)
        /\ last.out.val.pint.cls = "pint"
        /\ last.out.val.pint.u = last.out.val.pyomo.u

IsSqrt(call) == IsUnaryNamed(call.node, {"sqrt"}) /\ Len(call.data) = 1

\* the power node base ** 0.5 with a plain number as its exponent
HalfPowNode == MkNode("PowExpression", "", "native", 1, NullLinear)

\* what _get_unit_for_pow gives for the same base and the exponent 0.5
HalfPow(base, host) ==
    get_unit_for_pow(HalfPowNode, <<base, NativeLeafTuple>>, host)

C21_Holds(call) ==
    LET U == ChildUnit(call.data[1])
    IN  /\ call.out.type = "ok"
        /\ IF IsDimensionless(U)
           THEN call.out.val = DimensionlessPair
           ELSE call.out.val = PairOf(PowVec(U, 1))
        /\ \E host \in HostChoices(call.data) :
              LET p == HalfPow(call.data[1], host)
              IN  /\ p.type = "ok"
                  /\ Equivalent(ChildUnit(call.out.val), ChildUnit(p.val))

\* C21: every sqrt node with child unit U: the result is the dimensionless
\* unit when U is equivalent to dimensionless and U to the power 0.5
\* otherwise; so the unit inferred for sqrt(x) is equivalent to the unit
\* inferred for the power node with the same base and the constant
\* exponent 0.5.
C21_SqrtRule ==
    (InCall /\ IsSqrt(last)) => C21_Holds(last)

\* C21 restricted to a child whose pint slot holds a pint unit.
C21_OnPintPairs ==
    (InCall /\ IsSqrt(last) /\ PintPairs(last.data)) => C21_Holds(last)

\* sqrt of a unit that is not dimensionless has been given its half power
C21_HalfPowerReached ==
    /\ InCall /\ IsSqrt(last)
    /\ last.data[1] = PairOf(UnitVec("meter"))
    /\ last.out = Ok(PairOf(PowVec(UnitVec("meter"), 1)))


\* the names bound on the container and the unit bound to each, and the
\* definitions of its pint registry
ContainerState == <<defs, cache>>

\* C22: registration is the only operation that changes the state of the
\* registry: no step of a call of get_units or check_units_consistency,
\* on any tree, successful or failing, changes the set of names bound on
\* the container or the unit bound to a name.
C22_InferenceReadOnly ==
    [][UNCHANGED ContainerState]_vars

\* C22, the half the code keeps: a walk changes no definition of the pint
\* registry and neither replaces nor removes an attribute of the
\* container; it only binds dimensionless and radians, each once.
C22_OnlyBindsVisitorAttributes ==
    [][/\ UNCHANGED <<defs, op>>
       /\ \A n \in ContainerNames :
            cache'[n] # cache[n] => (cache[n] = 0 /\ n \in VisitorAttributes)
       /\ \A n \in ContainerNames : \A k \in ContainerNames :
            (n # k /\ cache'[n] # 0) => cache'[n] # cache'[k]]_vars

\* a failing walk has bound dimensionless on a container that had no
\* attribute
C22_BoundByFailingWalk ==
    /\ status = "raised"
    /\ cache["dimensionless"] # 0
    /\ made = 1


\* the result of a tree that holds a unit leaf of another container: its
\* pint unit belongs to the other registry
OtherRegistryResult(t) == t.pint.cls = "other_pint"

\* C23: units of two registries are never combined: the inference of a
\* tree that holds a unit leaf created by a container other than the one
\* passed to get_units / check_units_consistency, alone or together with
\* units of the passed container, fails and never returns a unit.  So no
\* call returns with a result that stems from such a leaf.
C23_OtherRegistryRejected ==
    status = "returned" => ~OtherRegistryResult(stack[1])

\* get_units has returned the unit of another container, met under a
\* negation
C23_ReturnedUnderNegation ==
    /\ status = "returned"
    /\ api.name = "get_units"
    /\ result = Returned("unit", PyomoUnit(UnitVec("meter")))
    /\ stack[1].pint = OtherPintUnit(UnitVec("meter"))


\* C25: whenever the inference of an equality, inequality, ranged or sum
\* node succeeds, every pair of its children has equivalent units under
\* the tolerance, not only each child and the first: no two children of
\* one dimension have factors that differ by the tolerance or more.
C25_ChildrenPairwiseEquivalent ==
    (InCall /\ last.node.type \in SumLikeTypes /\ last.out.type = "ok") =>
        \A i \in 1..Len(last.data) : \A j \in 1..Len(last.data) :
            Equivalent(ChildUnit(last.data[i]), ChildUnit(last.data[j]))

\* C25, what the code checks: every child of a node that succeeds is
\* equivalent to the first child.
C25_EquivalentToFirst ==
    (InCall /\ last.node.type \in SumLikeTypes /\ last.out.type = "ok") =>
        \A i \in 1..Len(last.data) :
            Equivalent(ChildUnit(last.data[1]), ChildUnit(last.data[i]))

\* a sum has succeeded on children near the meter of which two differ by
\* more than the tolerance
C25_NonTransitiveReached ==
    /\ InCall
    /\ last.node.type = "SumExpression"
    /\ last.out.type = "ok"
    /\ Len(last.data) = 3
    /\ ~Equivalent(ChildUnit(last.data[2]), ChildUnit(last.data[3]))


\* the _add_block calls the documentation of add_block promises: one for
\* each sub-block of an indexed block, one for a block that is not indexed
PromisedAddBlockCalls(block) ==
    IF block.is_indexed
    THEN [i \in 1..Len(block.values) |-> SubBlock(block, i)]
    ELSE <<block>>

\* C24: add_block on an indexed block with k sub-blocks makes one
\* _add_block call for each sub-block, with that sub-block as its
\* argument, so that each sub-block is added to the solver's model exactly
\* once and what the model held before stays; on a block that is not
\* indexed it makes exactly one _add_block call, with the block.
C24_AddBlockAddsEachSubBlock ==
    [][(method_call'.name = "add_block" /\ method_call'.out = "ok") =>
          /\ method_call'.trace = PromisedAddBlockCalls(method_call'.arg)
          /\ added_blocks' = added_blocks \o PromisedAddBlockCalls(method_call'.arg)]_vars

\* C24, what the code keeps: a block that is not indexed is added with one
\* call, an indexed block causes as many calls as it has sub-blocks, and
\* the blocks the model held before stay.
C24_OneCallPerSubBlock ==
    [][(method_call'.name = "add_block" /\ method_call'.out = "ok") =>
          /\ ~method_call'.arg.is_indexed => method_call'.trace = <<method_call'.arg>>
          /\ method_call'.arg.is_indexed =>
                Len(method_call'.trace) = Len(method_call'.arg.values)
          /\ added_blocks' = added_blocks \o method_call'.trace]_vars

\* add_block has handed the indexed block itself to _add_block, once for
\* each of its two sub-blocks
C24_IndexedBlockHandedOver ==
    /\ method_call.name = "add_block"
    /\ method_call.out = "ok"
    /\ method_call.arg.is_indexed
    /\ Len(method_call.arg.values) = 2
    /\ method_call.trace = <<method_call.arg, method_call.arg>>


\* every count is the number of registered constraints, and the objective,
\* that reference the variable
ConsistentCounts ==
    \A v \in DOMAIN referenced_variables :
        /\ referenced_variables[v] >= 0
        /\ referenced_variables[v] =
              References(vars_referenced_by_con, vars_referenced_by_obj, v)

\* the constraints a successful call has removed
RemovedCons(trace) == {trace[i][2].pyomo : i \in 1..Len(trace)}

RemovesConstraints ==
    /\ method_call'.name \in {"remove_constraint", "remove_sos_constraint"}
    /\ method_call'.out = "ok"

\* C26: from a state where every count is the number of registered
\* constraints (and the objective) referencing the variable, after any
\* sequence of remove_constraint, remove_sos_constraint and remove_var
\* calls every remaining count is >= 0 and is the number of remaining
\* registered constraints referencing the variable; removing a constraint
\* decrements the count of each variable it references by exactly one and
\* deletes the constraint from the constraint map and from the
\* referenced-variables map, and leaves every other entry as it was.
C26_CountsStayConsistent ==
    /\ [](/\ ConsistentCounts
          /\ DOMAIN vars_referenced_by_con =
                DOMAIN pyomo_con_to_solver_con_map)
    /\ [][RemovesConstraints =>
            LET gone == RemovedCons(method_call'.trace)
                kept == DOMAIN pyomo_con_to_solver_con_map \ gone
            IN  /\ gone \subseteq DOMAIN pyomo_con_to_solver_con_map
                /\ pyomo_con_to_solver_con_map' =
                      [c \in kept |-> pyomo_con_to_solver_con_map[c]]
                /\ vars_referenced_by_con' =
                      [c \in kept |-> vars_referenced_by_con[c]]
                /\ referenced_variables' =
                      [v \in DOMAIN referenced_variables |->
                          referenced_variables[v]
                          - Cardinality({c \in gone :
                                           v \in vars_referenced_by_con[c]})]
                /\ UNCHANGED pyomo_var_to_solver_var_map]_vars

\* a constraint that references both variables has been removed while
\* another constraint that references one of them stays registered
C26_Witness ==
    /\ method_call.name = "remove_constraint"
    /\ method_call.out = "ok"
    /\ method_call.arg = "c1"
    /\ "c2" \in DOMAIN vars_referenced_by_con
    /\ vars_referenced_by_con["c2"] = {"x"}
    /\ DOMAIN referenced_variables = {"x", "y"}
    /\ referenced_variables["x"] = 1
    /\ referenced_variables["y"] = 0


\* C27: remove_var on a variable that is not indexed and has a count other
\* than zero raises ValueError and changes nothing: no call of _remove_var,
\* the solver's model, the symbol map, the labeler, the counts and the
\* variable map as before.  A variable leaves the solver's model only when
\* its count is zero; after its removal it has no entry in the counts and
\* none in the variable map.
C27_ReferencedVarKept ==
    [][method_call'.name = "remove_var" =>
          /\ \A v \in VarNames :
                SolverObject(v) \in solver_model \ solver_model' =>
                    v \in DOMAIN referenced_variables
                    /\ referenced_variables[v] = 0
          /\ method_call'.arg \in VarNames =>
                LET var == method_call'.arg
                IN  /\ (var \in DOMAIN referenced_variables
                        /\ referenced_variables[var] # 0) =>
                            /\ method_call'.out = "ValueError"
                            /\ method_call'.trace = <<>>
                            /\ UNCHANGED remembered
                    /\ method_call'.out = "ok" =>
                            /\ var \notin DOMAIN referenced_variables'
                            /\ var \notin DOMAIN pyomo_var_to_solver_var_map'
                            /\ SolverObject(var) \notin solver_model']_vars

\* remove_var has refused a variable that two constraints reference
C27_Witness ==
    /\ method_call.name = "remove_var"
    /\ method_call.arg = "x"
    /\ method_call.out = "ValueError"
    /\ "x" \in DOMAIN referenced_variables
    /\ referenced_variables["x"] = 2
    /\ SolverObject("x") \in solver_model

\* remove_var has removed a variable, its count being zero
C27_WitnessRemoved ==
    /\ method_call.name = "remove_var"
    /\ method_call.arg = "x"
    /\ method_call.out = "ok"
    /\ "x" \notin DOMAIN referenced_variables
    /\ "y" \in DOMAIN referenced_variables


\* the methods a call has called
Called(trace) == {trace[i] : i \in 1..Len(trace)}

\* C28: solve leaves the solver's options as they were.  On every exit of
\* solve, the normal return, the ValueError for positional arguments and
\* any exception, self.options is the object it was before the call and
\* holds what it held, so that the options and options_string of one call
\* never reach a later one.
C28_OptionsRestored ==
    [][method_call'.name = "solve" => options' = options]_vars

\* C28, the exits the try statement covers: a call that raised for its
\* positional arguments or that reached _presolve leaves self.options as
\* it was.
C28_RestoredAfterPresolve ==
    [][(/\ method_call'.name = "solve"
        /\ \/ method_call'.arg.args # 0
           \/ "_presolve" \in Called(method_call'.trace)) =>
            options' = options]_vars

\* a call with options={'tol': 2} and an options_string that is rejected
\* has ended with ValueError, and the solver keeps tol = 2 in a new object
C28_OverridePersists ==
    /\ method_call.name = "solve"
    /\ method_call.out = "ValueError"
    /\ method_call.arg.args = 0
    /\ method_call.arg.options = "mapping"
    /\ method_call.arg.options_string = "malformed"
    /\ options.object = 1
    /\ options.contents["tol"] = 2


\* the place of a step in the order of solve
StepRank(step) ==
    CASE step = "available" -> 0
      [] step = "_presolve" -> 1
      [] step = "_initialize_callbacks" -> 2
      [] step = "_apply_solver" -> 3
      [] step = "_postsolve" -> 4

\* C29: in solve the steps run in the order presolve, callback
\* initialization, apply-solver, postsolve, none of them without the ones
\* before it, and a result is returned only if postsolve ran.  A call with
\* a positional argument raises ValueError before presolve and before the
\* solver run; a status with a return code other than zero makes solve
\* raise ApplicationError, and postsolve is not called.
C29_StepsInOrder ==
    method_call.name = "solve" =>
        LET trace == method_call.trace
            called == Called(trace)
        IN  /\ \A i \in 1..Len(trace) : \A j \in 1..Len(trace) :
                  i < j => StepRank(trace[i]) < StepRank(trace[j])
            /\ "_postsolve" \in called => "_apply_solver" \in called
            /\ "_apply_solver" \in called => "_presolve" \in called
            /\ "_initialize_callbacks" \in called => "_presolve" \in called
            /\ method_call.out = "result" => "_postsolve" \in called
            /\ method_call.arg.args # 0 =>
                  /\ method_call.out = "ValueError"
                  /\ called \cap {"_presolve", "_apply_solver"} = {}
            /\ (method_call.arg.status = "rc_nonzero"
                /\ "_apply_solver" \in called) =>
                  /\ method_call.out = "ApplicationError"
                  /\ "_postsolve" \notin called

\* the solver has run and returned a status with a return code other than
\* zero, and solve has raised ApplicationError
C29_Witness ==
    /\ method_call.name = "solve"
    /\ method_call.arg.status = "rc_nonzero"
    /\ method_call.out = "ApplicationError"
    /\ method_call.trace =
          <<"available", "_presolve", "_initialize_callbacks", "_apply_solver">>

\* a call has returned a result, postsolve being its last step
C29_WitnessResult ==
    /\ method_call.name = "solve"
    /\ method_call.out = "result"
    /\ method_call.trace[Len(method_call.trace)] = "_postsolve"
    /\ method_call.arg.effective = Update(KeywordOptions, StringOptions)


\* the options of a launch that are meant for the command line: all of
\* them for EXTERNAL_invoke_solve, those without the prefix OF_ for
\* _launch_solver
CommandLineOptions(l) ==
    IF l.function = "_launch_solver"
    THEN SelectSeq(l.given, LAMBDA item : ~startswith_OF(strip(item[1])))
    ELSE l.given

Occurrences(seq, x) == Cardinality({i \in 1..Len(seq) : seq[i] = x})

\* C30: the reserved options are never taken from the user.
\* EXTERNAL_invoke_solve raises ValueError and spawns nothing if the key
\* of a command-line option, white space stripped, is use_problem_file,
\* mpi_spawn_mode, option_file_name, output_file or -AMPL; _launch_solver
\* raises ValueError for the option OF_output_file.  Whenever the solver is
\* spawned, its arguments begin with the problem list file, hold each
\* command-line option once, as key=value and in the order given, and end
\* with -AMPL.
C30_ReservedOptionsRejected ==
    launch.function # "none" =>
        LET user == CommandLineOptions(launch)
            given == [i \in 1..Len(user) |->
                         KeyValue(strip(user[i][1]), user[i][2])]
            n == Len(launch.args)
        IN  /\ (\E i \in 1..Len(user) :
                    strip(user[i][1]) \in {<<w>> : w \in ReservedNames}) =>
                  launch.out = "ValueError" /\ ~launch.spawned
            /\ (/\ launch.function = "_launch_solver"
                /\ \E i \in 1..Len(launch.given) :
                      strip(launch.given[i][1]) = <<"OF_", "output_file">>) =>
                  launch.out = "ValueError" /\ ~launch.spawned
            /\ launch.spawned =>
                  /\ launch.args[1] = <<"problem_list_filename">>
                  /\ launch.args[n] = <<"-AMPL">>
                  /\ n >= Len(given) + 2
                  /\ SubSeq(launch.args, n - Len(given), n - 1) = given
                  /\ \A i \in 1..Len(given) :
                        Occurrences(launch.args, given[i])
                        = Occurrences(given, given[i])

\* the solver has been spawned with two options of the user, the first of
\* them written with white space
C30_Witness ==
    /\ launch.function = "EXTERNAL_invoke_solve"
    /\ launch.spawned
    /\ Len(launch.given) = 2
    /\ launch.given[1][1] = <<" ", "tol">>
    /\ launch.args[Len(launch.args) - 2] = <<"tol", "=", "1">>

\* a reserved key written with white space has been refused
C30_WitnessRefused ==
    /\ launch.function = "_launch_solver"
    /\ launch.out = "ValueError"
    /\ ~launch.spawned
    /\ Len(launch.given) = 2
    /\ launch.given[2][1] = <<"output_file", " ">>


====
